---- MODULE Spec2Model ----
(***************************************************************************)
(* A model of the Jira MCP server's Progress Update codec (ADF generator   *)
(* and template parser), the progress-update merge (updateProgressField),  *)
(* and the custom-field coercion of updateIssueField / createIssue.        *)
(*                                                                         *)
(* Strings are sequences of lexical tokens: a token is either a single     *)
(* character that the code's regular expressions single out (space,        *)
(* newline, colon, hyphen, full stop), a whole phrase that they match      *)
(* literally (a section header, the "[date]" placeholder, a formatted      *)
(* date "Month D, YYYY"), or a plain word.                                  *)
(***************************************************************************)
EXTENDS Integers, Sequences, FiniteSets, TLC

VARIABLES
    \* ---- codec harness (SpecCodec): one input, generated and/or parsed
    pkind,      \* "triple" | "raw" | "panel" | "node" | "none": how the input was drawn
    args,       \* the (weekOf, delivered, whatsNext) triple, or legacy panel ingredients
    doc,        \* the ADF value handed to parseProgressUpdateADF
    parsed,     \* the parser's outcome
    pstep,      \* "input" | "generated" | "parsed" | "extracted"
    extracted,  \* what extractTextFromADFNode returned for the node at hand
    \* ---- updateProgressField against one issue (Spec)
    store,      \* Jira: the value of customfield_15112 on the issue
    today,      \* the wall-clock date, formatted en-US long
    upc,        \* per caller: "idle" | "reading" | "writing" | "done" | "failed"
    opts,       \* per caller: the options of its call
    readVal,    \* per caller: the value its GET returned
    sentDoc,    \* per caller: the document of its PUT
    ret,        \* per caller: what the call returned
    err,        \* per caller: the error the call threw, "none" if none
    dateUsed,   \* per caller: currentDate as the call formatted it
    nreads,     \* per caller: GET requests issued
    nwrites,    \* per caller: PUT requests issued
    readVer,    \* per caller: how many writes Jira had applied when it read
    written,    \* history: the callers whose PUT Jira applied, in order
    initial,    \* history: the stored value before any call
    \* ---- updateIssueField / createIssue (SpecField): one call at a time
    fstep,      \* "idle" | "myself" | "put" | "post" | "done" | "failed"
    fcall,      \* the call in progress: its function and arguments
    requests,   \* the requests the call has issued so far, in order
    fret,       \* what the call returned
    ferr,       \* the error the call threw, "none" if none
    currentUserAccountId,   \* the module-level cache, <<>> while unset
    \* ---- createIssue calls in flight at the same time (SpecActor)
    apc,        \* per caller: "idle" | "myself" | "post" | "done" | "failed"
    aopts,      \* per caller: the options of its createIssue call
    alog,       \* history: requests issued and /myself answers, in order
    \* ---- the MCP tool handlers (SpecTool): one invocation at a time
    tstep,      \* "idle" | "awaiting" | "responded"
    tcall,      \* the invocation in progress: its tool and arguments
    treqs,      \* the requests issued to Jira during the invocation, in order
    tthrown,    \* the value the handler's catch block caught, NotThrown if none
    tremote,    \* the non-success response Jira gave, NoRemote if none
    tresp,      \* the response handed to the transport
    \* ---- calculateSprintLabel (SpecSprint): one clock reading, one call
    snow,       \* the local date that new Date() reads
    sweek,      \* "this_week" | "next_week", "none" before the call
    sprint      \* what calculateSprintLabel returned

codecVars == <<pkind, args, doc, parsed, pstep, extracted>>
mergeVars == <<store, today, upc, opts, readVal, sentDoc, ret, err, dateUsed, nreads,
               nwrites, readVer, written, initial>>
fieldVars == <<fstep, fcall, requests, fret, ferr, currentUserAccountId>>
actorVars == <<apc, aopts, alog>>
toolVars  == <<tstep, tcall, treqs, tthrown, tremote, tresp>>
sprintVars == <<snow, sweek, sprint>>
vars == <<pkind, args, doc, parsed, pstep, extracted,
          store, today, upc, opts, readVal, sentDoc, ret, err, dateUsed, nreads,
          nwrites, readVer, written, initial,
          fstep, fcall, requests, fret, ferr, currentUserAccountId,
          apc, aopts, alog,
          tstep, tcall, treqs, tthrown, tremote, tresp,
          snow, sweek, sprint>>

----------------------------------------------------------------------------
(* Tokens *)

SP    == " "
NL    == "\n"
COLON == ":"
DASH  == "-"
DOT   == "."
UW    == "Update for week of"
DL    == "What we've delivered so far"
WN    == "What's next"
\* the two headers written with the curly apostrophe, U+2019
DLC   == "What we<U+2019>ve delivered so far"
WNC   == "What<U+2019>s next"
PH    == "[date]"
Dates == {"December 1, 2025", "November 5, 2026", "November 6, 2026"}

WS == {SP, NL}                  \* what String.prototype.trim and \s remove
SepDash == <<SP, DASH, SP>>     \* ' - '
SepDot  == <<DOT, SP>>          \* '. '

----------------------------------------------------------------------------
(* String primitives of the JavaScript runtime, on token sequences *)

RECURSIVE SkipWS(_, _)
\* index of the first token at or after i that is not white space (Len+1 if none)
SkipWS(s, i) ==
    IF i <= Len(s) /\ s[i] \in WS THEN SkipWS(s, i + 1) ELSE i

RECURSIVE SkipWSBack(_, _)
SkipWSBack(s, j) ==
    IF j >= 1 /\ s[j] \in WS THEN SkipWSBack(s, j - 1) ELSE j

\* String.prototype.trim
Trim(s) ==
    LET i == SkipWS(s, 1)
        j == SkipWSBack(s, Len(s))
    IN  IF i > j THEN <<>> ELSE SubSeq(s, i, j)

\* s.slice(k): the string without its first k tokens
Slice(s, k) == SubSeq(s, k + 1, Len(s))

\* s.includes(t)
Includes(s, t) ==
    \E i \in 1..(Len(s) - Len(t) + 1) : SubSeq(s, i, i + Len(t) - 1) = t

\* s.endsWith(':')
EndsWithColon(s) == Len(s) > 0 /\ s[Len(s)] = COLON

RECURSIVE Join(_, _)
\* Array.prototype.join
Join(ss, sep) ==
    IF Len(ss) = 0 THEN <<>>
    ELSE IF Len(ss) = 1 THEN ss[1]
    ELSE ss[1] \o sep \o Join(Tail(ss), sep)

RECURSIVE FilterNonEmpty(_)
\* .filter(text => text.length > 0)
FilterNonEmpty(ss) ==
    IF Len(ss) = 0 THEN <<>>
    ELSE IF Len(ss[1]) > 0 THEN <<ss[1]>> \o FilterNonEmpty(Tail(ss))
    ELSE FilterNonEmpty(Tail(ss))

\* end of the line that starts at i: '.' does not match a line terminator
RECURSIVE LineEnd(_, _)
LineEnd(s, i) ==
    IF i <= Len(s) /\ s[i] # NL THEN LineEnd(s, i + 1) ELSE i - 1

\* first index >= i holding a colon (Len+1 if none)
RECURSIVE NextColon(_, _)
NextColon(s, i) ==
    IF i <= Len(s) /\ s[i] # COLON THEN NextColon(s, i + 1) ELSE i

NoMatch == [matched |-> FALSE, g1 |-> <<>>, g2 |-> <<>>]

----------------------------------------------------------------------------
(* ADF values as the parser sees them (any JSON value) *)

\* ck: "none" (no content / falsy), "array", "object" (truthy, not iterable),
\*     "string" (truthy, iterable, no .map)
Node(type, hasText, text, ck, content, attrs, strong) ==
    [k |-> "obj", type |-> type, hasText |-> hasText, text |-> text,
     ck |-> ck, content |-> content, attrs |-> attrs, strong |-> strong]

Null   == [k |-> "null", type |-> "", hasText |-> FALSE, text |-> <<>>,
           ck |-> "none", content |-> <<>>, attrs |-> "", strong |-> FALSE]
Scalar == [k |-> "scalar", type |-> "", hasText |-> FALSE, text |-> <<>>,
           ck |-> "none", content |-> <<>>, attrs |-> "", strong |-> FALSE]

TextNode(text, strong) == Node("text", TRUE, text, "none", <<>>, "", strong)
EmojiNode(id)          == Node("emoji", FALSE, <<>>, "none", <<>>, id, FALSE)
Block(type, children)  == Node(type, FALSE, <<>>, "array", children, "", FALSE)

----------------------------------------------------------------------------
(* The regular expressions of parseProgressUpdateADF and updateProgressField *)

RECURSIVE WeeklyFrom(_, _)
\* /Update for week of ([^:]+):(.*)/ tried at start positions i, i+1, ...
\* g1 is what [^:]+ captured, g2 the rest of the colon's line
WeeklyFrom(s, i) ==
    IF i + 3 > Len(s) THEN NoMatch
    ELSE IF s[i] = UW /\ s[i + 1] = SP /\ s[i + 2] # COLON
              /\ NextColon(s, i + 2) <= Len(s)
         THEN LET c == NextColon(s, i + 2)
              IN  [matched |-> TRUE,
                   g1 |-> SubSeq(s, i + 2, c - 1),
                   g2 |-> SubSeq(s, c + 1, LineEnd(s, c + 1))]
         ELSE WeeklyFrom(s, i + 1)

WeeklyMatch(s) == WeeklyFrom(s, 1)

RECURSIVE HeaderFrom(_, _, _)
\* /<phrase>:(.*)/ tried at start positions i, i+1, ...
HeaderFrom(s, phrase, i) ==
    IF i + 1 > Len(s) THEN NoMatch
    ELSE IF s[i] = phrase /\ s[i + 1] = COLON
         THEN [matched |-> TRUE, g1 |-> SubSeq(s, i + 2, LineEnd(s, i + 2)),
               g2 |-> <<>>]
         ELSE HeaderFrom(s, phrase, i + 1)

\* /What we['']ve delivered so far:(.*)/
DeliveredMatch(s) == HeaderFrom(s, DL, 1)

\* /What['']s next:(.*)/
WhatsNextMatch(s) == HeaderFrom(s, WN, 1)

\* length matched by \s*-?\s* at position i (greedy, nothing follows it)
SepEnd(s, i) ==
    LET j == SkipWS(s, i)
    IN  IF j <= Len(s) /\ s[j] = DASH THEN SkipWS(s, j + 1) ELSE j

\* /^[A-Z][a-z]+ \d{1,2}, \d{4}\s*-?\s*/ : number of tokens matched, 0 if no match
DatePrefixLen(s) ==
    IF Len(s) >= 1 /\ s[1] \in Dates THEN SepEnd(s, 2) - 1 ELSE 0

\* /^\[date\]\s*-?\s*/ : number of tokens matched, 0 if no match
PlaceholderPrefixLen(s) ==
    IF Len(s) >= 1 /\ s[1] = PH THEN SepEnd(s, 2) - 1 ELSE 0

----------------------------------------------------------------------------
(* Text extraction *)

RECURSIVE extractTextFromADFNode(_)
RECURSIVE ExtractAll(_)
\* children.map(child => extractTextFromADFNode(child))
ExtractAll(nodes) ==
    IF Len(nodes) = 0 THEN <<>>
    ELSE <<extractTextFromADFNode(nodes[1])>> \o ExtractAll(Tail(nodes))

\* an extraction that does not trim what it joined
extractTextUntrimmed(node) ==
    IF node.k # "obj" THEN <<>>
    ELSE IF node.type = "text" /\ node.hasText /\ Len(node.text) > 0 THEN node.text
    ELSE IF node.ck = "array" THEN Join(ExtractAll(node.content), <<SP>>)
    ELSE <<>>

extractTextFromADFNode(node) ==
    IF node.k # "obj" THEN <<>>
    ELSE IF node.type = "text" /\ node.hasText /\ Len(node.text) > 0 THEN node.text
    ELSE IF node.ck = "array" THEN Trim(Join(ExtractAll(node.content), <<SP>>))
    ELSE <<>>

RECURSIVE ListItemTexts(_)
\* the map callback of extractBulletListItems over the list's items
ListItemTexts(items) ==
    IF Len(items) = 0 THEN [threw |-> FALSE, items |-> <<>>]
    ELSE LET it == items[1]
             rest == ListItemTexts(Tail(items))
         IN  IF it.k = "null" THEN [threw |-> TRUE, items |-> <<>>]
             ELSE IF it.k = "obj" /\ it.ck \in {"object", "string"}
                  THEN [threw |-> TRUE, items |-> <<>>]
             ELSE IF rest.threw THEN rest
             ELSE IF it.k = "obj" /\ it.ck = "array"
                  THEN [threw |-> FALSE,
                        items |-> <<Trim(Join(ExtractAll(it.content), <<SP>>))>>
                                      \o rest.items]
             ELSE [threw |-> FALSE, items |-> <<<<>>>> \o rest.items]

extractBulletListItems(node) ==
    IF node.k # "obj" THEN [threw |-> FALSE, items |-> <<>>]
    ELSE IF node.type = "bulletList" /\ node.ck # "none"
         THEN IF node.ck # "array" THEN [threw |-> TRUE, items |-> <<>>]
              ELSE LET r == ListItemTexts(node.content)
                   IN  IF r.threw THEN r
                       ELSE [threw |-> FALSE, items |-> FilterNonEmpty(r.items)]
    ELSE [threw |-> FALSE, items |-> <<>>]

----------------------------------------------------------------------------
(* Template generator *)

InfoEmoji     == "atlassian-info"
CheckEmoji    == "atlassian-check_mark"
QuestionEmoji == "atlassian-question_mark"

\* the paragraph that createADFParagraph builds when no emoji is passed
createADFParagraphBare(text, emoji) ==
    Block("paragraph", <<TextNode(text, EndsWithColon(text))>>)

\* every caller passes an emoji, so the text run is ' ' + text
createADFParagraph(text, emoji) ==
    Block("paragraph",
          <<EmojiNode(emoji), TextNode(<<SP>> \o text, EndsWithColon(text))>>)

DocOf(blocks) == Node("doc", FALSE, <<>>, "array", blocks, "", FALSE)

createProgressUpdateADF(weeklyUpdate, delivered, whatsNext) ==
    DocOf(<<createADFParagraph(<<UW, SP>> \o weeklyUpdate \o <<COLON>>, InfoEmoji),
            createADFParagraph(<<DL, COLON, SP>> \o delivered, CheckEmoji),
            createADFParagraph(<<WN, COLON, SP>> \o whatsNext, QuestionEmoji)>>)

----------------------------------------------------------------------------
(* Template parser *)

ParseDefaults ==
    [threw |-> FALSE, weeklyUpdate |-> <<PH>>, delivered |-> <<>>,
     whatsNext |-> <<>>, currentSection |-> "null"]

RECURSIVE PanelScan(_, _)
\* the loop over a panel's children: the last heading's text, all bullet items
PanelScan(children, acc) ==
    IF Len(children) = 0 \/ acc.threw THEN acc
    ELSE LET pc == children[1]
         IN  IF pc.k = "null" THEN [acc EXCEPT !.threw = TRUE]
             ELSE IF pc.k # "obj" THEN PanelScan(Tail(children), acc)
             ELSE LET h == IF pc.type = "heading"
                           THEN extractTextFromADFNode(pc) ELSE acc.header
                      li == IF pc.type = "bulletList"
                            THEN extractBulletListItems(pc)
                            ELSE [threw |-> FALSE, items |-> <<>>]
                  IN  PanelScan(Tail(children),
                                [threw |-> li.threw, header |-> h,
                                 items |-> acc.items \o li.items])

\* panelHeader.replace(/[']/g, "'"): the class holds U+0027 alone, so every
\* apostrophe of the header stays what it was
ReplaceApostrophes(s) == s

\* s.includes('delivered so far'): the fragment has no apostrophe in it
IncludesDeliveredSoFar(s) == \E i \in 1..Len(s) : s[i] \in {DL, DLC}

\* s.includes("What's next"), the apostrophe being U+0027
IncludesWhatsNext(s) == \E i \in 1..Len(s) : s[i] = WN

\* a panel whose weekly items follow the date without the " - " separator
PanelSectionNoDash(st, panelHeader, panelItems) ==
    LET dateMatch == WeeklyMatch(panelHeader)
        week0 == IF dateMatch.matched THEN Trim(dateMatch.g1) ELSE <<PH>>
    IN  IF Includes(ReplaceApostrophes(panelHeader), <<UW>>)
        THEN [st EXCEPT !.weeklyUpdate = week0 \o <<SP>> \o Join(panelItems, SepDot)]
        ELSE IF IncludesDeliveredSoFar(ReplaceApostrophes(panelHeader))
        THEN [st EXCEPT !.delivered = Join(panelItems, SepDot)]
        ELSE IF IncludesWhatsNext(ReplaceApostrophes(panelHeader))
        THEN [st EXCEPT !.whatsNext = Join(panelItems, SepDot)]
        ELSE st

\* the section a panel's header names receives the panel's items
PanelSection(st, panelHeader, panelItems) ==
    LET dateMatch == WeeklyMatch(panelHeader)
        week0 == IF dateMatch.matched THEN Trim(dateMatch.g1) ELSE <<PH>>
    IN  IF Includes(ReplaceApostrophes(panelHeader), <<UW>>)
        THEN [st EXCEPT !.weeklyUpdate =
                  IF Len(panelItems) > 0
                  THEN week0 \o SepDash \o Join(panelItems, SepDot)
                  ELSE week0]
        ELSE IF IncludesDeliveredSoFar(ReplaceApostrophes(panelHeader))
        THEN [st EXCEPT !.delivered = Join(panelItems, SepDot)]
        ELSE IF IncludesWhatsNext(ReplaceApostrophes(panelHeader))
        THEN [st EXCEPT !.whatsNext = Join(panelItems, SepDot)]
        ELSE st

\* one panel block, its content being truthy
ParsePanel(st, b) ==
    IF b.ck = "object" THEN [st EXCEPT !.threw = TRUE]
    ELSE LET scan == IF b.ck = "array"
                     THEN PanelScan(b.content,
                                    [threw |-> FALSE, header |-> <<>>, items |-> <<>>])
                     ELSE [threw |-> FALSE, header |-> <<>>, items |-> <<>>]
         IN  IF scan.threw THEN [st EXCEPT !.threw = TRUE]
             ELSE PanelSection(st, scan.header, scan.items)

\* a parser that files a paragraph seen before any header under delivered
AppendContinuationAnywhere(st, text) ==
    IF Len(text) = 0 THEN st
    ELSE IF st.currentSection = "weekly"
         THEN [st EXCEPT !.weeklyUpdate =
                   @ \o (IF Includes(@, SepDash) THEN SepDot ELSE SepDash) \o text]
    ELSE IF st.currentSection \in {"delivered", "null"}
         THEN [st EXCEPT !.delivered =
                   @ \o (IF Len(@) > 0 THEN SepDot ELSE <<>>) \o text]
    ELSE [st EXCEPT !.whatsNext =
                   @ \o (IF Len(@) > 0 THEN SepDot ELSE <<>>) \o text]

\* a non-header paragraph: appended to the section being parsed, if any
AppendContinuation(st, text) ==
    IF st.currentSection = "null" \/ Len(text) = 0 THEN st
    ELSE IF st.currentSection = "weekly"
         THEN [st EXCEPT !.weeklyUpdate =
                   @ \o (IF Includes(@, SepDash) THEN SepDot ELSE SepDash) \o text]
    ELSE IF st.currentSection = "delivered"
         THEN [st EXCEPT !.delivered =
                   @ \o (IF Len(@) > 0 THEN SepDot ELSE <<>>) \o text]
    ELSE [st EXCEPT !.whatsNext =
                   @ \o (IF Len(@) > 0 THEN SepDot ELSE <<>>) \o text]

\* one paragraph block, its content being truthy
ParseParagraph(st, b) ==
    LET paragraphText  == extractTextFromADFNode(b)
        weeklyMatch    == WeeklyMatch(paragraphText)
        deliveredMatch == DeliveredMatch(paragraphText)
        whatsNextMatch == WhatsNextMatch(paragraphText)
    IN  IF weeklyMatch.matched
        THEN [st EXCEPT !.weeklyUpdate =
                            IF Len(Trim(weeklyMatch.g2)) > 0
                            THEN Trim(weeklyMatch.g1) \o SepDash \o Trim(weeklyMatch.g2)
                            ELSE Trim(weeklyMatch.g1),
                        !.currentSection = "weekly"]
        ELSE IF deliveredMatch.matched
        THEN [st EXCEPT !.delivered = Trim(deliveredMatch.g1),
                        !.currentSection = "delivered"]
        ELSE IF whatsNextMatch.matched
        THEN [st EXCEPT !.whatsNext = Trim(whatsNextMatch.g1),
                        !.currentSection = "whatsNext"]
        ELSE AppendContinuation(st, Trim(paragraphText))

\* the body of the loop over the document's top-level blocks
ParseBlock(st, block) ==
    IF block.k = "null" THEN [st EXCEPT !.threw = TRUE]
    ELSE IF block.k # "obj" THEN st
    ELSE IF block.type = "panel" /\ block.ck # "none" THEN ParsePanel(st, block)
    ELSE IF block.type = "paragraph" /\ block.ck # "none" THEN ParseParagraph(st, block)
    ELSE st

RECURSIVE ParseBlocks(_, _)
ParseBlocks(blocks, st) ==
    IF Len(blocks) = 0 \/ st.threw THEN st
    ELSE ParseBlocks(Tail(blocks), ParseBlock(st, blocks[1]))

\* the parser's outcome: threw, or the three sections
parseProgressUpdateADF(adf) ==
    LET st == IF adf.k # "obj" \/ adf.ck # "array" THEN ParseDefaults
              ELSE ParseBlocks(adf.content, ParseDefaults)
    IN  IF st.threw
        THEN [threw |-> TRUE, weeklyUpdate |-> <<>>, delivered |-> <<>>,
              whatsNext |-> <<>>]
        ELSE [threw |-> FALSE, weeklyUpdate |-> st.weeklyUpdate,
              delivered |-> st.delivered, whatsNext |-> st.whatsNext]

----------------------------------------------------------------------------
(* The merge of updateProgressField *)

Absent    == [set |-> FALSE, v |-> <<>>]
Given(v)  == [set |-> TRUE, v |-> v]

\* a refresh that puts the new date in front of the old one
RefreshedWeeklyKeepsOldDate(weeklyUpdate, currentDate) ==
    IF Len(Trim(weeklyUpdate)) > 0 THEN <<currentDate>> \o SepDash \o Trim(weeklyUpdate)
    ELSE <<currentDate>>

\* the refreshDate branch: the stored date or placeholder replaced by currentDate
RefreshedWeekly(weeklyUpdate, currentDate) ==
    LET afterDate   == Slice(weeklyUpdate, DatePrefixLen(weeklyUpdate))
        afterHolder == Slice(afterDate, PlaceholderPrefixLen(afterDate))
        contentOnly == Trim(afterHolder)
    IN  IF Len(contentOnly) > 0 THEN <<currentDate>> \o SepDash \o contentOnly
        ELSE <<currentDate>>

\* the explicit weeklyUpdate branch
DatedWeekly(text, currentDate) ==
    IF Len(text) > 0 THEN <<currentDate>> \o SepDash \o text ELSE <<currentDate>>

\* a merge that blanks the sections the caller did not supply
MergeSectionsBlanksAbsent(existing, o, currentDate) ==
    [weeklyUpdate |-> IF o.weeklyUpdate.set THEN DatedWeekly(o.weeklyUpdate.v, currentDate)
                      ELSE IF o.refreshDate
                      THEN RefreshedWeekly(existing.weeklyUpdate, currentDate)
                      ELSE existing.weeklyUpdate,
     delivered |-> o.delivered.v,
     whatsNext |-> o.whatsNext.v,
     updatedSections |->
         (IF o.refreshDate THEN <<"weeklyUpdate (date refreshed)">> ELSE <<>>)
      \o (IF o.weeklyUpdate.set THEN <<"weeklyUpdate">> ELSE <<>>)
      \o (IF o.delivered.set THEN <<"delivered">> ELSE <<>>)
      \o (IF o.whatsNext.set THEN <<"whatsNext">> ELSE <<>>)]

\* a merge in which the refresh is applied after the explicit weeklyUpdate
MergeSectionsRefreshLast(existing, o, currentDate) ==
    LET w1 == IF o.weeklyUpdate.set THEN DatedWeekly(o.weeklyUpdate.v, currentDate)
              ELSE existing.weeklyUpdate
        w2 == IF o.refreshDate THEN RefreshedWeekly(existing.weeklyUpdate, currentDate)
              ELSE w1
    IN  [weeklyUpdate |-> w2,
         delivered |-> IF o.delivered.set THEN o.delivered.v ELSE existing.delivered,
         whatsNext |-> IF o.whatsNext.set THEN o.whatsNext.v ELSE existing.whatsNext,
         updatedSections |->
             (IF o.refreshDate THEN <<"weeklyUpdate (date refreshed)">> ELSE <<>>)
          \o (IF o.weeklyUpdate.set THEN <<"weeklyUpdate">> ELSE <<>>)
          \o (IF o.delivered.set THEN <<"delivered">> ELSE <<>>)
          \o (IF o.whatsNext.set THEN <<"whatsNext">> ELSE <<>>)]

\* the three sections and the labels after the options are applied to `existing`
MergeSections(existing, o, currentDate) ==
    LET w1 == IF o.refreshDate THEN RefreshedWeekly(existing.weeklyUpdate, currentDate)
              ELSE existing.weeklyUpdate
        w2 == IF o.weeklyUpdate.set THEN DatedWeekly(o.weeklyUpdate.v, currentDate)
              ELSE w1
    IN  [weeklyUpdate |-> w2,
         delivered |-> IF o.delivered.set THEN o.delivered.v ELSE existing.delivered,
         whatsNext |-> IF o.whatsNext.set THEN o.whatsNext.v ELSE existing.whatsNext,
         updatedSections |->
             (IF o.refreshDate THEN <<"weeklyUpdate (date refreshed)">> ELSE <<>>)
          \o (IF o.weeklyUpdate.set THEN <<"weeklyUpdate">> ELSE <<>>)
          \o (IF o.delivered.set THEN <<"delivered">> ELSE <<>>)
          \o (IF o.whatsNext.set THEN <<"whatsNext">> ELSE <<>>)]

----------------------------------------------------------------------------
(* Custom-field registry and resolveFieldId *)

\* Field keys are token sequences too: an identifier is the prefix
\* 'customfield_' followed by its digits, a display name is one word.
Prefix == "customfield_"
Id(digits) == <<Prefix, digits>>

DecisionNeededId       == Id("15111")
ProgressUpdateId       == Id("15112")
DecisionMakersId       == Id("15113")
RisksBlockersId        == Id("15115")
CompletionPercentageId == Id("15116")
HealthStatusId         == Id("15117")

CUSTOM_FIELD_MAP ==
    (DecisionNeededId :> <<"Decision Needed">>)
        @@ (ProgressUpdateId :> <<"Progress Update">>)
        @@ (DecisionMakersId :> <<"Decision Maker(s)">>)
        @@ (RisksBlockersId :> <<"Risks/Blockers">>)
        @@ (CompletionPercentageId :> <<"Completion Percentage">>)
        @@ (HealthStatusId :> <<"Health Status">>)

CUSTOM_FIELD_TYPES ==
    (DecisionNeededId :> "richtext")
        @@ (ProgressUpdateId :> "richtext")
        @@ (DecisionMakersId :> "user")
        @@ (RisksBlockersId :> "richtext")
        @@ (CompletionPercentageId :> "number")
        @@ (HealthStatusId :> "select")

\* the words of the model that change under toLowerCase / toUpperCase
LowerWord ==
    ("Decision Needed" :> "decision needed")
        @@ ("Progress Update" :> "progress update")
        @@ ("Decision Maker(s)" :> "decision maker(s)")
        @@ ("Risks/Blockers" :> "risks/blockers")
        @@ ("Completion Percentage" :> "completion percentage")
        @@ ("COMPLETION PERCENTAGE" :> "completion percentage")
        @@ ("Health Status" :> "health status")
        @@ ("Not A Real Field" :> "not a real field")
        @@ ("Customfield_" :> "customfield_")
        @@ ("CurrentUser()" :> "currentuser()")
        @@ ("Constructor" :> "constructor")
        @@ ("TSSE" :> "tsse")
        @@ ("PROJ" :> "proj")

UpperWord == ("tsse" :> "TSSE") @@ ("Tsse" :> "TSSE") @@ ("proj" :> "PROJ")

\* String.prototype.toLowerCase / toUpperCase
toLowerCase(s) ==
    [i \in 1..Len(s) |-> IF s[i] \in DOMAIN LowerWord THEN LowerWord[s[i]] ELSE s[i]]
toUpperCase(s) ==
    [i \in 1..Len(s) |-> IF s[i] \in DOMAIN UpperWord THEN UpperWord[s[i]] ELSE s[i]]

\* s.startsWith('customfield_')
StartsWithPrefix(s) == Len(s) > 0 /\ s[1] = Prefix

FIELD_NAME_TO_ID ==
    [name \in {toLowerCase(CUSTOM_FIELD_MAP[id]) : id \in DOMAIN CUSTOM_FIELD_MAP} |->
        CHOOSE id \in DOMAIN CUSTOM_FIELD_MAP : toLowerCase(CUSTOM_FIELD_MAP[id]) = name]

\* FIELD_NAME_TO_ID is an ordinary object: a key it does not own is looked up
\* on Object.prototype. Of the inherited keys only these two are lower case;
\* their values (the Object function, Object.prototype) are written here as
\* the strings they turn into when used as a property key
ObjectPrototype ==
    (<<"constructor">> :> <<"function Object() { [native code] }">>)
        @@ (<<"__proto__">> :> <<"[object Object]">>)

\* obj[key], <<>> standing for undefined
Lookup(obj, key) ==
    IF key \in DOMAIN obj THEN obj[key]
    ELSE IF key \in DOMAIN ObjectPrototype THEN ObjectPrototype[key]
    ELSE <<>>

resolveFieldId(fieldNameOrId) ==
    IF StartsWithPrefix(fieldNameOrId)
    THEN [threw |-> FALSE, id |-> fieldNameOrId]
    ELSE IF Lookup(FIELD_NAME_TO_ID, toLowerCase(fieldNameOrId)) # <<>>
    THEN [threw |-> FALSE, id |-> Lookup(FIELD_NAME_TO_ID, toLowerCase(fieldNameOrId))]
    ELSE [threw |-> TRUE, id |-> <<>>]

----------------------------------------------------------------------------
(* JavaScript values of the field functions and their JSON form *)

\* t: typeof-like tag; n: a number in units of 1/Scale; s: a string, or the
\* string inside a one-key object; shape: which object it is ("adf" carries a
\* 'type' key and the document in node, "value" is {value: s}, "accountId" is
\* {accountId: s}, "key" is {key: s}, "name" is {name: s}, "names" is
\* [{name: s[i]}], "plain" is any other object)
JsVal(t, n, s, shape, node) ==
    [t |-> t, n |-> n, s |-> s, shape |-> shape, node |-> node]

\* numbers are fixed-point, so that n / 100 is exact twice over
Scale == 100 * 100

Undefined   == JsVal("undefined", 0, <<>>, "", Null)
JsNull      == JsVal("null", 0, <<>>, "", Null)
NaN         == JsVal("NaN", 0, <<>>, "", Null)
Num(n)      == JsVal("number", n, <<>>, "", Null)
Pct(p)      == Num(p * Scale)
Str(s)      == JsVal("string", 0, s, "", Null)
Bool(b)     == JsVal("boolean", IF b THEN 1 ELSE 0, <<>>, "", Null)
Arr(items)  == JsVal("array", 0, items, "", Null)
Obj(shape, s)  == JsVal("object", 0, s, shape, Null)
AdfObj(node)   == JsVal("object", 0, <<>>, "adf", node)

\* typeof v === 'object'
TypeofObject(v) == v.t \in {"object", "array", "null"}
\* typeof v === 'number'
TypeofNumber(v) == v.t \in {"number", "NaN"}
\* the truthiness of v
Truthy(v) ==
    CASE v.t \in {"undefined", "null", "NaN"} -> FALSE
      [] v.t = "number" -> v.n # 0
      [] v.t = "boolean" -> v.n # 0
      [] v.t = "string" -> Len(v.s) > 0
      [] OTHER -> TRUE

\* the numerals of the model, and the numbers they denote
Numerals == ("0" :> 0) @@ ("42" :> 42 * Scale) @@ ("100" :> 100 * Scale)
             @@ ("0.42" :> (42 * Scale) \div 100)

\* String(v)
ToStr(v) ==
    CASE v.t = "string" -> v.s
      [] v.t = "number" ->
            IF \E d \in DOMAIN Numerals : Numerals[d] = v.n
            THEN <<CHOOSE d \in DOMAIN Numerals : Numerals[d] = v.n>>
            ELSE <<ToString(v.n)>>
      [] v.t = "NaN" -> <<"NaN">>
      [] v.t = "null" -> <<"null">>
      [] v.t = "undefined" -> <<"undefined">>
      [] v.t = "array" -> Join([i \in 1..Len(v.s) |-> <<v.s[i]>>], <<",">>)
      [] OTHER -> <<"[object Object]">>

\* parseFloat(s): leading white space is skipped, the longest numeral prefix
\* is read, anything after it is ignored
parseFloat(s) ==
    LET i == SkipWS(s, 1)
    IN  IF i <= Len(s) /\ s[i] \in DOMAIN Numerals THEN Num(Numerals[s[i]]) ELSE NaN

\* x / 100
Div100(v) == IF v.t = "number" THEN Num(v.n \div 100) ELSE v

createADFDocument(text) ==
    DocOf(<<Block("paragraph", <<TextNode(text, FALSE)>>)>>)

----------------------------------------------------------------------------
(* updateIssueField: the value coerced by the field's registered type *)

\* a coercion that lets an unparseable number through instead of throwing
FormatValueKeepsNaN(fieldId, fieldType, value) ==
    CASE fieldType = "richtext" ->
            [threw |-> FALSE,
             value |-> IF value.t = "object" /\ value.shape = "adf" THEN value
                       ELSE AdfObj(createADFDocument(ToStr(value)))]
      [] fieldType = "number" ->
            [threw |-> FALSE,
             value |-> IF TypeofNumber(value) THEN value ELSE parseFloat(ToStr(value))]
      [] fieldType = "select" ->
            [threw |-> FALSE,
             value |-> IF TypeofObject(value) THEN value
                       ELSE Obj("value", ToStr(value))]
      [] fieldType = "user" ->
            [threw |-> FALSE,
             value |-> IF TypeofObject(value) THEN value
                       ELSE Obj("accountId", ToStr(value))]
      [] OTHER -> [threw |-> FALSE, value |-> value]

FormatValue(fieldId, fieldType, value) ==
    CASE fieldType = "richtext" ->
            [threw |-> FALSE,
             value |-> IF value.t = "object" /\ value.shape = "adf" THEN value
                       ELSE AdfObj(createADFDocument(ToStr(value)))]
      [] fieldType = "number" ->
            LET parsedValue == IF TypeofNumber(value) THEN value
                               ELSE parseFloat(ToStr(value))
            IN  IF parsedValue.t = "NaN" THEN [threw |-> TRUE, value |-> Undefined]
                ELSE [threw |-> FALSE,
                      value |-> IF fieldId = CompletionPercentageId
                                THEN Div100(parsedValue) ELSE parsedValue]
      [] fieldType = "select" ->
            [threw |-> FALSE,
             value |-> IF TypeofObject(value) THEN value
                       ELSE Obj("value", ToStr(value))]
      [] fieldType = "user" ->
            [threw |-> FALSE,
             value |-> IF TypeofObject(value) THEN value
                       ELSE Obj("accountId", ToStr(value))]
      [] OTHER -> [threw |-> FALSE, value |-> value]

\* JSON.stringify of a fields object: keys whose value is undefined are
\* dropped, NaN is written as null
Stringify(fields) ==
    [k \in {x \in DOMAIN fields : fields[x].t # "undefined"} |->
        IF fields[k].t = "NaN" THEN JsNull ELSE fields[k]]

\* fields[k] = v
Put(fields, k, v) ==
    [x \in DOMAIN fields \cup {k} |-> IF x = k THEN v ELSE fields[x]]

\* if (cond) fields[k] = v
PutIf(cond, fields, k, v) == IF cond THEN Put(fields, k, v) ELSE fields

NoFields == [k \in {} |-> Undefined]

Request(method, endpoint, fields) ==
    [method |-> method, endpoint |-> endpoint, fields |-> fields]

\* what updateIssueField does up to its PUT
updateIssueField(fieldNameOrId, value) ==
    LET r == resolveFieldId(fieldNameOrId)
        fieldId == r.id
        fieldName == IF fieldId \in DOMAIN CUSTOM_FIELD_MAP
                     THEN CUSTOM_FIELD_MAP[fieldId] ELSE fieldId
        fieldType == IF fieldId \in DOMAIN CUSTOM_FIELD_TYPES
                     THEN CUSTOM_FIELD_TYPES[fieldId] ELSE "undefined"
        formatted == FormatValue(fieldId, fieldType, value)
    IN  IF r.threw
        THEN [threw |-> TRUE, error |-> "Unknown field", fieldId |-> <<>>,
              fieldName |-> <<>>, fields |-> NoFields]
        ELSE IF formatted.threw
        THEN [threw |-> TRUE, error |-> "Invalid number value", fieldId |-> fieldId,
              fieldName |-> fieldName, fields |-> NoFields]
        ELSE [threw |-> FALSE, error |-> "none", fieldId |-> fieldId,
              fieldName |-> fieldName,
              fields |-> Stringify(Put(NoFields, fieldId, formatted.value))]

----------------------------------------------------------------------------
(* createIssue: the fields of the create request *)

CurrentUser == <<"currentuser()">>

IsTSSE(o) == toUpperCase(o.projectKey) = <<"TSSE">>

\* options.assignee ?? (isTSSEProject ? 'currentuser()' : undefined)
EffectiveAssignee(o) ==
    IF o.assignee.t \in {"undefined", "null"}
    THEN IF IsTSSE(o) THEN Str(CurrentUser) ELSE Undefined
    ELSE o.assignee

\* a comparison with 'currentuser()' that does not fold the letter case
NeedsCurrentUserExactCase(o) ==
    /\ Truthy(EffectiveAssignee(o))
    /\ EffectiveAssignee(o).t = "string"
    /\ EffectiveAssignee(o).s = CurrentUser

\* createIssue awaits getCurrentUserAccountId
NeedsCurrentUser(o) ==
    /\ Truthy(EffectiveAssignee(o))
    /\ EffectiveAssignee(o).t = "string"
    /\ toLowerCase(EffectiveAssignee(o).s) = CurrentUser

\* options.labels ?? (isTSSEProject ? ['EngProd', 'TSSP'] : undefined)
EffectiveLabels(o) ==
    IF o.labels.t \in {"undefined", "null"}
    THEN IF IsTSSE(o) THEN Arr(<<"EngProd", "TSSP">>) ELSE Undefined
    ELSE o.labels

\* the date 30 days after now, as toISOString().split('T')[0] writes it
IsoPlus30(now) == <<"iso+30d", now>>

EffectiveDuedate(o, now) ==
    IF ~Truthy(o.duedate) /\ IsTSSE(o) THEN Str(IsoPlus30(now)) ELSE o.duedate

\* x || ''
OrEmpty(v) == IF Truthy(v) /\ v.t = "string" THEN v.s ELSE <<>>

RECURSIVE AddCustomFields(_, _)
\* the loop over Object.entries(options.customFields)
AddCustomFields(entries, acc) ==
    IF Len(entries) = 0 \/ acc.threw THEN acc
    ELSE LET key == entries[1].key
             r == IF StartsWithPrefix(key) THEN [threw |-> FALSE, id |-> key]
                  ELSE resolveFieldId(key)
         IN  IF r.threw THEN [threw |-> TRUE, fields |-> acc.fields]
             ELSE AddCustomFields(Tail(entries),
                      [threw |-> FALSE,
                       fields |-> Put(acc.fields, r.id, entries[1].value)])

\* what createIssue puts into the request, given the account id that
\* getCurrentUserAccountId answered and the date of new Date()
createIssueFields(o, accountId, now) ==
    LET f0 == (<<"project">> :> Obj("key", o.projectKey))
                  @@ (<<"issuetype">> :> Obj("name", o.issueType))
                  @@ (<<"summary">> :> Str(o.summary))
        f1 == PutIf(Truthy(o.description), f0, <<"description">>,
                    AdfObj(createADFDocument(o.description.s)))
        f2 == PutIf(Truthy(EffectiveAssignee(o)), f1, <<"assignee">>,
                    Obj("accountId", IF NeedsCurrentUser(o) THEN accountId
                                     ELSE EffectiveAssignee(o).s))
        f3 == PutIf(Truthy(o.priority), f2, <<"priority">>, Obj("name", o.priority.s))
        f4 == PutIf(Truthy(EffectiveLabels(o)) /\ Len(EffectiveLabels(o).s) > 0,
                    f3, <<"labels">>, EffectiveLabels(o))
        f5 == PutIf(Truthy(EffectiveDuedate(o, now)), f4, <<"duedate">>,
                    EffectiveDuedate(o, now))
        f6 == PutIf(Truthy(o.components) /\ Len(o.components.s) > 0,
                    f5, <<"components">>, Obj("names", o.components.s))
        f7 == PutIf(Truthy(o.healthStatus), f6, resolveFieldId(<<"Health Status">>).id,
                    Obj("value", o.healthStatus.s))
        f8 == PutIf(o.completionPercentage.t # "undefined", f7,
                    resolveFieldId(<<"Completion Percentage">>).id,
                    Div100(o.completionPercentage))
        f9 == PutIf(Truthy(o.decisionNeeded), f8,
                    resolveFieldId(<<"Decision Needed">>).id,
                    AdfObj(createADFDocument(o.decisionNeeded.s)))
        f10 == PutIf(Truthy(o.risksBlockers), f9,
                     resolveFieldId(<<"Risks/Blockers">>).id,
                     AdfObj(createADFDocument(o.risksBlockers.s)))
        f11 == PutIf(o.progressUpdate.set, f10,
                     resolveFieldId(<<"Progress Update">>).id,
                     AdfObj(createProgressUpdateADF(
                         <<now, NL>> \o OrEmpty(o.progressUpdate.weeklyUpdate),
                         OrEmpty(o.progressUpdate.delivered),
                         OrEmpty(o.progressUpdate.whatsNext))))
        all == AddCustomFields(IF o.customFields.set THEN o.customFields.entries
                               ELSE <<>>,
                               [threw |-> FALSE, fields |-> f11])
    IN  [threw |-> all.threw, fields |-> Stringify(all.fields)]

----------------------------------------------------------------------------
(* Inputs of updateIssueField and createIssue *)

MaxCustom == 2

FieldInputs ==
    { <<"Completion Percentage">>, <<"COMPLETION PERCENTAGE">>, CompletionPercentageId,
      <<"Health Status">>, <<"Decision Needed">>, <<"Decision Maker(s)">>,
      Id("14707"), <<"Not A Real Field">>, <<"Customfield_", "15116">>,
      <<"Constructor">>, <<"__proto__">>, <<>> }

ValueInputs ==
    { Pct(0), Pct(42), Pct(100), Str(<<"42">>), Str(<<SP, "42", "%">>), Str(<<"abc">>),
      Str(<<>>), JsNull, Undefined, Obj("plain", <<>>), Obj("value", <<"Green">>),
      AdfObj(createADFDocument(<<"a">>)) }

NoProgress ==
    [set |-> FALSE, weeklyUpdate |-> Undefined, delivered |-> Undefined,
     whatsNext |-> Undefined]
NoCustomFields == [set |-> FALSE, entries |-> <<>>]

\* a call that gives only the required options
BareOptions ==
    [projectKey |-> <<"PROJ">>, issueType |-> <<"Task">>, summary |-> <<"s">>,
     description |-> Undefined, assignee |-> Undefined, priority |-> Undefined,
     labels |-> Undefined, duedate |-> Undefined, components |-> Undefined,
     healthStatus |-> Undefined, completionPercentage |-> Undefined,
     decisionNeeded |-> Undefined, risksBlockers |-> Undefined,
     progressUpdate |-> NoProgress, customFields |-> NoCustomFields]

\* a call that gives every option, and one that gives them empty
FullOptions ==
    [BareOptions EXCEPT
        !.description = Str(<<"a">>), !.priority = Str(<<"High">>),
        !.labels = Arr(<<"x">>), !.duedate = Str(<<"2026-12-01">>),
        !.components = Arr(<<"web">>), !.healthStatus = Str(<<"Green">>),
        !.decisionNeeded = Str(<<"q">>), !.risksBlockers = Str(<<"r">>),
        !.progressUpdate = [set |-> TRUE, weeklyUpdate |-> Str(<<"a">>),
                            delivered |-> Undefined, whatsNext |-> Str(<<"z">>)]]
EmptyOptions ==
    [BareOptions EXCEPT
        !.description = Str(<<>>), !.priority = Str(<<>>),
        !.labels = Arr(<<>>), !.duedate = Str(<<>>),
        !.components = Arr(<<>>), !.healthStatus = Str(<<>>),
        !.decisionNeeded = Str(<<>>), !.risksBlockers = Str(<<>>),
        !.progressUpdate = [NoProgress EXCEPT !.set = TRUE]]

ProjectKeys == {<<"TSSE">>, <<"tsse">>, <<"PROJ">>}
Assignees   == {Undefined, Str(CurrentUser), Str(<<"CurrentUser()">>), Str(<<"acct-7">>)}
Percentages == {Undefined, Pct(0), Pct(42)}
CustomKeys  == {<<"Completion Percentage">>, CompletionPercentageId, Id("14707"),
                <<"Not A Real Field">>}
CustomValues == {Pct(42), Obj("value", <<"Data">>)}

\* the entries of a customFields object: its keys are distinct
EntrySeqs(n) ==
    {e \in [1..n -> [key : CustomKeys, value : CustomValues]] :
        \A i, j \in 1..n : i # j => e[i].key # e[j].key}

CustomFieldInputs ==
    {NoCustomFields}
        \cup {[set |-> TRUE, entries |-> e] : e \in UNION {EntrySeqs(n) : n \in 0..MaxCustom}}

CreateInputs ==
    {[std EXCEPT !.projectKey = pk, !.assignee = a, !.completionPercentage = p,
                 !.customFields = cf] :
        std \in {BareOptions, FullOptions, EmptyOptions}, pk \in ProjectKeys,
        a \in Assignees, p \in Percentages, cf \in CustomFieldInputs}

Me == <<"acct-me">>

NoCall == [op |-> "none", fieldNameOrId |-> <<>>, value |-> Undefined,
           options |-> BareOptions]
NoFieldRet == [success |-> FALSE, fieldId |-> <<>>, fieldName |-> <<>>, key |-> <<>>]

----------------------------------------------------------------------------
(* Errors: what jiraFetch throws and what formatError makes of it *)

\* a value that was thrown: an Error with its message, or the plain object
\* { statusCode, message, errors } that jiraFetch throws
Thrown(t, message, hasStatusCode, statusCode, errors) ==
    [t |-> t, message |-> message, hasStatusCode |-> hasStatusCode,
     statusCode |-> statusCode, errors |-> errors]

NotThrown == Thrown("none", <<>>, FALSE, 0, Undefined)

\* new Error(message)
NewError(message) == Thrown("Error", message, FALSE, 0, Undefined)

\* a non-success response of Jira: json says whether its body parses as a
\* JSON object, and then errorMessages, message and errors are its members
\* (hasErrorMessages is FALSE when the body has none); body is its text
Response(status, statusText, json, hasErrorMessages, errorMessages, message, errors, body) ==
    [status |-> status, statusText |-> statusText, json |-> json,
     hasErrorMessages |-> hasErrorMessages, errorMessages |-> errorMessages,
     message |-> message, errors |-> errors, body |-> body]

NoRemote == Response(0, <<>>, FALSE, FALSE, <<>>, Undefined, Undefined, <<>>)

\* the errorData that jiraFetch throws when response.ok is false
jiraFetchError(response) ==
    IF response.json
    THEN Thrown("object",
                IF response.hasErrorMessages
                   /\ Len(Join(response.errorMessages, <<", ">>)) > 0
                THEN Join(response.errorMessages, <<", ">>)
                ELSE IF Truthy(response.message) THEN response.message.s
                ELSE response.statusText,
                TRUE, response.status, response.errors)
    ELSE Thrown("object",
                IF Len(response.body) > 0 THEN response.body ELSE response.statusText,
                TRUE, response.status, Undefined)

\* the error member of a response: statusCode and details are present only
\* when formatError found a statusCode in what was thrown
ErrorObject(message, hasStatusCode, statusCode, hasDetails, details) ==
    [message |-> message, hasStatusCode |-> hasStatusCode, statusCode |-> statusCode,
     hasDetails |-> hasDetails, details |-> details]

NoErrorObject == ErrorObject(<<>>, FALSE, 0, FALSE, Undefined)

formatErrorDropsRemote(error) ==
    ErrorObject(error.message, FALSE, 0, FALSE, Undefined)

formatError(error) ==
    IF error.t \in {"Error", "object"} /\ error.hasStatusCode
    THEN ErrorObject(error.message, TRUE, error.statusCode, TRUE, error.errors)
    ELSE ErrorObject(IF error.t = "Error" THEN error.message ELSE <<"[object Object]">>,
                     FALSE, 0, FALSE, Undefined)

\* what a handler hands to the transport: success is "true", "false" or
\* "absent", payload says whether the members of a result are in it
ToolResponse(isError, success, payload, hasError, error) ==
    [isError |-> isError, success |-> success, payload |-> payload,
     hasError |-> hasError, error |-> error]

NoResponse == ToolResponse(FALSE, "absent", FALSE, FALSE, NoErrorObject)

\* the arguments of a tool invocation; undefined where the caller gave none
NoToolArgs ==
    [issueKey |-> Undefined, commentBody |-> Undefined, fieldNameOrId |-> Undefined,
     value |-> Undefined, refreshDate |-> Undefined, weeklyUpdate |-> Undefined,
     delivered |-> Undefined, whatsNext |-> Undefined, projectKey |-> Undefined,
     issueType |-> Undefined, summary |-> Undefined, assignee |-> Undefined,
     customFields |-> NoCustomFields]

NoToolCall == [tool |-> "none", args |-> NoToolArgs]

\* no tool invocation is in progress
ToolQuiet ==
    /\ tstep = "idle" /\ tcall = NoToolCall /\ treqs = <<>>
    /\ tthrown = NotThrown /\ tremote = NoRemote /\ tresp = NoResponse

----------------------------------------------------------------------------
(* Local calendar dates, as the Date object keeps them *)

\* a date: year, month (0 = January) and day of month
DateOf(y, m, d) == [y |-> y, m |-> m, d |-> d]

IsLeap(y) == (y % 4 = 0 /\ y % 100 # 0) \/ y % 400 = 0

DaysInMonth(y, m) ==
    IF m = 1 THEN (IF IsLeap(y) THEN 29 ELSE 28)
    ELSE IF m \in {3, 5, 8, 10} THEN 30 ELSE 31

RECURSIVE setDate(_, _)
\* date.setDate(d): a day outside the month rolls into the months around it
setDate(date, d) ==
    IF d < 1
    THEN LET py == IF date.m = 0 THEN date.y - 1 ELSE date.y
             pm == IF date.m = 0 THEN 11 ELSE date.m - 1
         IN  setDate(DateOf(py, pm, 1), d + DaysInMonth(py, pm))
    ELSE IF d > DaysInMonth(date.y, date.m)
    THEN setDate(DateOf(IF date.m = 11 THEN date.y + 1 ELSE date.y,
                        IF date.m = 11 THEN 0 ELSE date.m + 1, 1),
                 d - DaysInMonth(date.y, date.m))
    ELSE DateOf(date.y, date.m, d)

RECURSIVE DaysBeforeYear(_)
\* the days from 1 January 1970 to 1 January of year y
DaysBeforeYear(y) ==
    IF y <= 1970 THEN 0
    ELSE DaysBeforeYear(y - 1) + (IF IsLeap(y - 1) THEN 366 ELSE 365)

RECURSIVE DaysBeforeMonth(_, _)
\* the days from 1 January of year y to the first of month m
DaysBeforeMonth(y, m) ==
    IF m = 0 THEN 0 ELSE DaysBeforeMonth(y, m - 1) + DaysInMonth(y, m - 1)

\* the days from 1 January 1970 to the date
DayNumber(date) == DaysBeforeYear(date.y) + DaysBeforeMonth(date.y, date.m) + date.d - 1

\* date.getDay(): 0 = Sunday; 1 January 1970 was a Thursday
getDay(date) == (DayNumber(date) + 4) % 7

----------------------------------------------------------------------------
(* calculateSprintLabel *)

MONTH_ABBR ==
    <<"Jan", "Feb", "Mar", "Apr", "May", "Jun", "Jul", "Aug", "Sep", "Oct", "Nov", "Dec">>

daysUntilMondayNoSunday(dayOfWeek) == 1 - dayOfWeek

\* dayOfWeek === 0 ? -6 : 1 - dayOfWeek
daysUntilMonday(dayOfWeek) == IF dayOfWeek = 0 THEN 0 - 6 ELSE 1 - dayOfWeek

\* week === 'this_week' ? 0 : 1
WeekOffset(week) == IF week = "this_week" THEN 0 ELSE 1

\* the label is month, mondayDay, '-', fridayDay
calculateSprintLabel(now, weekOffset) ==
    LET monday == setDate(now, now.d + daysUntilMonday(getDay(now)) + (weekOffset * 7))
        friday == setDate(monday, monday.d + 4)
    IN  [label |-> <<MONTH_ABBR[monday.m + 1], monday.d, "-", friday.d>>,
         mondayDate |-> monday, fridayDate |-> friday]

BaseYear == 2024
MaxYears == 2

\* the dates the clock may show
ClockDates ==
    {DateOf(y, m, d) : y \in BaseYear..(BaseYear + MaxYears - 1), m \in 0..11, d \in 1..31}

NoSprint == [label |-> <<>>, mondayDate |-> DateOf(0, 0, 0), fridayDate |-> DateOf(0, 0, 0)]

\* calculateSprintLabel has not been called
SprintQuiet ==
    /\ snow = DateOf(0, 0, 0) /\ sweek = "none" /\ sprint = NoSprint

\* the calls that may be in flight at the same time
Callers == {"c1", "c2"}

\* no concurrent createIssue call has been made
ActorQuiet ==
    /\ apc = [c \in Callers |-> "idle"]
    /\ aopts = [c \in Callers |-> BareOptions]
    /\ alog = <<>>

\* no call of updateIssueField or createIssue is in progress
FieldQuiet ==
    /\ fstep = "idle" /\ fcall = NoCall /\ requests = <<>>
    /\ fret = NoFieldRet /\ ferr = "none"
    /\ currentUserAccountId = <<>>

----------------------------------------------------------------------------
(* Codec harness: inputs of the generator and of the parser *)

MaxTotalLen == 4    \* tokens in a (weekOf, delivered, whatsNext) triple, in all
MaxBlocks   == 2    \* top-level blocks of an arbitrary stored value
MaxItems    == 2    \* bullet items of a legacy panel

StrUpTo(A, n) == UNION {[1..k -> A] : k \in 0..n}

CodecAlphabet == {"a", SP, COLON, UW, NL}

StrOfLen(A, k) == [1..k -> A]

\* every triple of strings over the alphabet with at most MaxTotalLen tokens in all
Triples ==
    UNION {StrOfLen(CodecAlphabet, i) \X StrOfLen(CodecAlphabet, j)
               \X StrUpTo(CodecAlphabet, MaxTotalLen - i - j) :
           i \in 0..MaxTotalLen, j \in 0..MaxTotalLen}

ICON == "(i)"       \* a pictograph typed into a legacy heading's text

Para(text)  == Block("paragraph", <<TextNode(text, FALSE)>>)
ListOf(items) ==
    Block("bulletList",
          [i \in 1..Len(items) |-> Block("listItem", <<Para(items[i])>>)])
PanelOf(header, items) ==
    Block("panel", <<Block("heading", <<TextNode(header, FALSE)>>), ListOf(items)>>)

\* A document in the legacy panel encoding
PanelDoc(p) ==
    LET pre == IF p.icon THEN <<ICON, SP>> ELSE <<>>
    IN  DocOf(<<PanelOf(pre \o <<UW, SP, p.date, COLON>>, p.wk),
                PanelOf(pre \o <<DL, COLON>>, p.dl),
                PanelOf(pre \o <<WN, COLON>>, p.wn)>>)

ItemTexts == {<<"a">>, <<"b">>}
ItemLists == StrUpTo(ItemTexts, MaxItems)
PanelInputs ==
    [date : {"December 1, 2025", "November 5, 2026"}, icon : BOOLEAN, wk : ItemLists, dl : ItemLists, wn : ItemLists]

Malformed(type, ck) == Node(type, FALSE, <<>>, ck, <<>>, "", FALSE)

\* Top-level blocks a stored value may hold, well-formed or not
SampleBlocks ==
    { Null, Scalar,
      Block("table", <<Para(<<"a">>)>>),
      Para(<<"a">>),
      Para(<<UW, SP, "December 1, 2025", COLON, SP, "a">>),
      Para(<<UW, SP, "a", COLON>>),
      Para(<<UW, SP, SP, COLON>>),
      Para(<<DL, COLON, SP, "a">>),
      Para(<<WN, COLON, SP, "b">>),
      Para(<<"a", SP, WN, COLON, SP, "b">>),
      Para(<<DLC, COLON, SP, "a">>),
      Para(<<WNC, COLON, SP, "b">>),
      PanelOf(<<DLC, COLON>>, <<<<"a">>>>),
      PanelOf(<<WNC, COLON>>, <<<<"b">>>>),
      Block("paragraph", <<Null, TextNode(<<"b">>, FALSE)>>),
      Malformed("paragraph", "none"),
      Malformed("paragraph", "object"),
      PanelOf(<<UW, SP, "December 1, 2025", COLON>>, <<<<"a">>>>),
      PanelOf(<<"a">>, <<<<"a">>>>),
      Malformed("panel", "object"),
      Malformed("panel", "string"),
      Block("panel", <<Null>>),
      Block("panel", <<Scalar, Block("heading", <<TextNode(<<DL>>, FALSE)>>)>>),
      Block("panel", <<Block("bulletList", <<Null>>)>>),
      Block("panel", <<Block("bulletList", <<Scalar, Malformed("listItem", "none")>>)>>),
      Block("panel", <<Block("bulletList", <<Malformed("listItem", "object")>>)>>),
      Block("panel", <<Malformed("bulletList", "string")>>) }

MaxDepth == 2

RECURSIVE Nested(_, _)
\* node b, d levels down a tree of paragraphs
Nested(b, d) ==
    IF d = 0 THEN b
    ELSE Block("paragraph", <<Nested(b, d - 1), TextNode(<<"c">>, FALSE)>>)

\* Nodes handed to extractTextFromADFNode: text runs with and without their
\* text, nodes of kinds the parser knows and of kinds it does not, with and
\* without children, at every depth up to MaxDepth
NodeLeaves ==
    SampleBlocks
        \cup {TextNode(<<"a">>, TRUE), TextNode(<<>>, FALSE), Malformed("text", "none"),
              EmojiNode(InfoEmoji), Malformed("table", "none"),
              Malformed("table", "object"),
              Block("table", <<Block("tableRow",
                  <<Block("tableCell", <<Para(<<"a">>), Para(<<SP, "b">>)>>)>>)>>),
              Block("mediaSingle", <<Malformed("media", "none")>>)}
NodeInputs == {Nested(b, d) : b \in NodeLeaves, d \in 0..MaxDepth}

\* Values the field may hold
RawDocs ==
    {Null, Scalar, Malformed("doc", "none"), Malformed("doc", "object"),
     Malformed("doc", "string")}
    \cup {DocOf(bs) : bs \in StrUpTo(SampleBlocks, MaxBlocks)}

NoArgs == [w |-> <<>>, d |-> <<>>, n |-> <<>>]
NotParsed ==
    [threw |-> FALSE, weeklyUpdate |-> <<>>, delivered |-> <<>>, whatsNext |-> <<>>]

NoOpts == [refreshDate |-> FALSE, weeklyUpdate |-> Absent, delivered |-> Absent,
           whatsNext |-> Absent]
NoRet  == [success |-> FALSE, updatedSections |-> <<>>, parsedExisting |-> NotParsed]
FirstDay == "November 5, 2026"
NextDay  == "November 6, 2026"

\* no call of updateProgressField has been made
MergeQuiet(value) ==
    /\ store = value /\ initial = value
    /\ today = FirstDay
    /\ upc = [c \in Callers |-> "idle"]
    /\ opts = [c \in Callers |-> NoOpts]
    /\ readVal = [c \in Callers |-> Null]
    /\ sentDoc = [c \in Callers |-> Null]
    /\ ret = [c \in Callers |-> NoRet]
    /\ err = [c \in Callers |-> "none"]
    /\ dateUsed = [c \in Callers |-> ""]
    /\ nreads = [c \in Callers |-> 0]
    /\ nwrites = [c \in Callers |-> 0]
    /\ readVer = [c \in Callers |-> 0]
    /\ written = <<>>

CodecQuiet ==
    /\ pkind = "none" /\ args = NoArgs /\ doc = Null
    /\ parsed = NotParsed /\ pstep = "input"
    /\ extracted = <<>>

CodecInit ==
    /\ MergeQuiet(Null)
    /\ FieldQuiet
    /\ ToolQuiet
    /\ SprintQuiet
    /\ ActorQuiet
    /\ pstep = "input"
    /\ parsed = NotParsed
    /\ extracted = <<>>
    /\ \/ /\ pkind = "triple"
          /\ \E t \in Triples : args = [w |-> t[1], d |-> t[2], n |-> t[3]]
          /\ doc = Null
       \/ /\ pkind = "panel"
          /\ args \in PanelInputs
          /\ doc = PanelDoc(args)
       \/ /\ pkind = "raw"
          /\ args = NoArgs
          /\ doc \in RawDocs
       \/ /\ pkind = "node"
          /\ args = NoArgs
          /\ doc \in NodeInputs

\* createProgressUpdateADF applied to the drawn triple
Generate ==
    /\ pkind = "triple" /\ pstep = "input"
    /\ doc' = createProgressUpdateADF(args.w, args.d, args.n)
    /\ pstep' = "generated"
    /\ UNCHANGED <<pkind, args, parsed, extracted>>
    /\ UNCHANGED mergeVars
    /\ UNCHANGED fieldVars
    /\ UNCHANGED actorVars
    /\ UNCHANGED toolVars
    /\ UNCHANGED sprintVars

\* parseProgressUpdateADF applied to the document at hand
Parse ==
    /\ \/ pkind = "triple" /\ pstep = "generated"
       \/ pkind \in {"panel", "raw"} /\ pstep = "input"
    /\ parsed' = parseProgressUpdateADF(doc)
    /\ pstep' = "parsed"
    /\ UNCHANGED <<pkind, args, doc, extracted>>
    /\ UNCHANGED mergeVars
    /\ UNCHANGED fieldVars
    /\ UNCHANGED actorVars
    /\ UNCHANGED toolVars
    /\ UNCHANGED sprintVars

\* extractTextFromADFNode applied to the node at hand
Extract ==
    /\ pkind = "node" /\ pstep = "input"
    /\ extracted' = extractTextFromADFNode(doc)
    /\ pstep' = "extracted"
    /\ UNCHANGED <<pkind, args, doc, parsed>>
    /\ UNCHANGED mergeVars
    /\ UNCHANGED fieldVars
    /\ UNCHANGED actorVars
    /\ UNCHANGED toolVars
    /\ UNCHANGED sprintVars

CodecNext == Generate \/ Parse \/ Extract

SpecCodec == CodecInit /\ [][CodecNext]_vars

----------------------------------------------------------------------------
(* updateProgressField: two callers against the same issue *)

OptionSets ==
    [refreshDate : BOOLEAN,
     weeklyUpdate : {Absent, Given(<<>>), Given(<<"a">>)},
     delivered : {Absent, Given(<<"b">>)},
     whatsNext : {Absent, Given(<<>>)}]

OldDay == "December 1, 2025"

\* Values the field may hold before a call: never set, written by earlier calls,
\* edited by hand in Jira, in the legacy panel encoding, or malformed
StoredValues ==
    { Null,
      createProgressUpdateADF(<<PH>>, <<>>, <<>>),
      createProgressUpdateADF(<<OldDay, SP, DASH, SP, "x">>, <<"y">>, <<"z">>),
      createProgressUpdateADF(<<OldDay, SP, DASH, SP, "x", COLON, SP, "y">>, <<"y">>, <<>>),
      createProgressUpdateADF(<<OldDay, SP, DASH, SP, PH, SP, DASH, SP, "x">>, <<>>, <<"z">>),
      DocOf(<<Para(<<UW, SP, OldDay, COLON, SP, "x">>), Para(<<"y">>),
              Para(<<DL, COLON, SP, "y">>), Para(<<WN, COLON, SP, "z">>)>>),
      PanelDoc([date |-> OldDay, icon |-> TRUE, wk |-> <<<<"x">>>>,
                dl |-> <<<<"y">>, <<"z">>>>, wn |-> <<>>]),
      DocOf(<<Null>>) }

Init ==
    /\ CodecQuiet
    /\ FieldQuiet
    /\ ToolQuiet
    /\ SprintQuiet
    /\ ActorQuiet
    /\ \E v \in StoredValues : MergeQuiet(v)

\* updateProgressField is called: getIssueCustomField issues its GET
Call(c) ==
    /\ upc[c] = "idle"
    /\ \E o \in OptionSets : opts' = [opts EXCEPT ![c] = o]
    /\ upc' = [upc EXCEPT ![c] = "reading"]
    /\ nreads' = [nreads EXCEPT ![c] = @ + 1]
    /\ UNCHANGED <<store, today, readVal, sentDoc, ret, err, dateUsed, nwrites,
                   readVer, written, initial>>
    /\ UNCHANGED codecVars
    /\ UNCHANGED actorVars
    /\ UNCHANGED fieldVars
    /\ UNCHANGED toolVars
    /\ UNCHANGED sprintVars

\* the GET answers: parse, merge, generate, and issue the PUT
ReadOk(c) ==
    /\ upc[c] = "reading"
    /\ readVal' = [readVal EXCEPT ![c] = store]
    /\ readVer' = [readVer EXCEPT ![c] = Len(written)]
    /\ LET existing == parseProgressUpdateADF(store)
           m == MergeSections(existing, opts[c], today)
       IN  IF existing.threw
           THEN /\ upc' = [upc EXCEPT ![c] = "failed"]
                /\ err' = [err EXCEPT ![c] = "TypeError"]
                /\ UNCHANGED <<sentDoc, ret, dateUsed, nwrites>>
           ELSE /\ upc' = [upc EXCEPT ![c] = "writing"]
                /\ UNCHANGED err
                /\ dateUsed' = [dateUsed EXCEPT ![c] = today]
                /\ sentDoc' = [sentDoc EXCEPT ![c] =
                       createProgressUpdateADF(m.weeklyUpdate, m.delivered, m.whatsNext)]
                /\ ret' = [ret EXCEPT ![c] =
                       [success |-> FALSE, updatedSections |-> m.updatedSections,
                        parsedExisting |-> existing]]
                /\ nwrites' = [nwrites EXCEPT ![c] = @ + 1]
    /\ UNCHANGED <<store, today, opts, nreads, written, initial>>
    /\ UNCHANGED codecVars
    /\ UNCHANGED actorVars
    /\ UNCHANGED fieldVars
    /\ UNCHANGED toolVars
    /\ UNCHANGED sprintVars

\* a failed GET that is issued again
ReadFailRetries(c) ==
    /\ upc[c] = "reading"
    /\ nreads' = [nreads EXCEPT ![c] = @ + 1]
    /\ UNCHANGED <<store, today, upc, opts, readVal, sentDoc, ret, err, dateUsed,
                   nwrites, readVer, written, initial>>
    /\ UNCHANGED codecVars
    /\ UNCHANGED actorVars
    /\ UNCHANGED fieldVars
    /\ UNCHANGED toolVars
    /\ UNCHANGED sprintVars

\* the GET fails (jiraFetch throws): the call ends in that error
ReadFail(c) ==
    /\ upc[c] = "reading"
    /\ upc' = [upc EXCEPT ![c] = "failed"]
    /\ err' = [err EXCEPT ![c] = "GET failed"]
    /\ UNCHANGED <<store, today, opts, readVal, sentDoc, ret, dateUsed, nreads, nwrites,
                   readVer, written, initial>>
    /\ UNCHANGED codecVars
    /\ UNCHANGED actorVars
    /\ UNCHANGED fieldVars
    /\ UNCHANGED toolVars
    /\ UNCHANGED sprintVars

\* a PUT that Jira drops when the field changed since the caller read it
WriteOkUnlessChanged(c) ==
    /\ upc[c] = "writing"
    /\ store' = IF Len(written) = readVer[c] THEN sentDoc[c] ELSE store
    /\ written' = Append(written, c)
    /\ ret' = [ret EXCEPT ![c].success = TRUE]
    /\ upc' = [upc EXCEPT ![c] = "done"]
    /\ UNCHANGED <<today, opts, readVal, sentDoc, err, dateUsed, nreads, nwrites,
                   readVer, initial>>
    /\ UNCHANGED codecVars
    /\ UNCHANGED actorVars
    /\ UNCHANGED fieldVars
    /\ UNCHANGED toolVars
    /\ UNCHANGED sprintVars

\* Jira applies the PUT: the whole field is overwritten; the call returns success
WriteOk(c) ==
    /\ upc[c] = "writing"
    /\ store' = sentDoc[c]
    /\ written' = Append(written, c)
    /\ ret' = [ret EXCEPT ![c].success = TRUE]
    /\ upc' = [upc EXCEPT ![c] = "done"]
    /\ UNCHANGED <<today, opts, readVal, sentDoc, err, dateUsed, nreads, nwrites,
                   readVer, initial>>
    /\ UNCHANGED codecVars
    /\ UNCHANGED actorVars
    /\ UNCHANGED fieldVars
    /\ UNCHANGED toolVars
    /\ UNCHANGED sprintVars

\* Jira rejects the PUT (jiraFetch throws): the call ends in that error
WriteFail(c) ==
    /\ upc[c] = "writing"
    /\ upc' = [upc EXCEPT ![c] = "failed"]
    /\ ret' = [ret EXCEPT ![c] = NoRet]
    /\ err' = [err EXCEPT ![c] = "PUT failed"]
    /\ UNCHANGED <<store, today, opts, readVal, sentDoc, dateUsed, nreads, nwrites,
                   readVer, written, initial>>
    /\ UNCHANGED codecVars
    /\ UNCHANGED actorVars
    /\ UNCHANGED fieldVars
    /\ UNCHANGED toolVars
    /\ UNCHANGED sprintVars

\* midnight passes
Tick ==
    /\ today = FirstDay
    /\ today' = NextDay
    /\ UNCHANGED <<store, upc, opts, readVal, sentDoc, ret, err, dateUsed, nreads,
                   nwrites, readVer, written, initial>>
    /\ UNCHANGED codecVars
    /\ UNCHANGED actorVars
    /\ UNCHANGED fieldVars
    /\ UNCHANGED toolVars
    /\ UNCHANGED sprintVars

Next ==
    \/ \E c \in Callers : Call(c)
    \/ \E c \in Callers : ReadOk(c)
    \/ \E c \in Callers : ReadFail(c)
    \/ \E c \in Callers : WriteOk(c)
    \/ \E c \in Callers : WriteFail(c)
    \/ Tick

Spec == Init /\ [][Next]_vars

----------------------------------------------------------------------------
(* updateIssueField and createIssue, one call after another *)

FieldInit ==
    /\ CodecQuiet
    /\ MergeQuiet(Null)
    /\ FieldQuiet
    /\ ToolQuiet
    /\ SprintQuiet
    /\ ActorQuiet

\* updateIssueField is called: resolve, coerce, and issue the PUT
CallUpdateIssueField ==
    /\ fstep = "idle"
    /\ \E f \in FieldInputs, v \in ValueInputs :
         LET u == updateIssueField(f, v)
         IN  /\ fcall' = [NoCall EXCEPT !.op = "updateIssueField",
                                        !.fieldNameOrId = f, !.value = v]
             /\ fret' = [NoFieldRet EXCEPT !.fieldId = u.fieldId,
                                           !.fieldName = u.fieldName]
             /\ IF u.threw
                THEN /\ fstep' = "failed" /\ ferr' = u.error
                     /\ requests' = <<>>
                ELSE /\ fstep' = "put" /\ ferr' = "none"
                     /\ requests' = <<Request("PUT", "/issue", u.fields)>>
    /\ UNCHANGED currentUserAccountId
    /\ UNCHANGED codecVars
    /\ UNCHANGED actorVars
    /\ UNCHANGED mergeVars
    /\ UNCHANGED toolVars
    /\ UNCHANGED sprintVars

\* Jira applies the PUT: { success: true, fieldId, fieldName }
PutOk ==
    /\ fstep = "put"
    /\ fstep' = "done"
    /\ fret' = [fret EXCEPT !.success = TRUE]
    /\ UNCHANGED <<fcall, requests, ferr, currentUserAccountId>>
    /\ UNCHANGED codecVars
    /\ UNCHANGED actorVars
    /\ UNCHANGED mergeVars
    /\ UNCHANGED toolVars
    /\ UNCHANGED sprintVars

\* Jira rejects the PUT: jiraFetch throws
PutFail ==
    /\ fstep = "put"
    /\ fstep' = "failed"
    /\ ferr' = "PUT failed"
    /\ fret' = NoFieldRet
    /\ UNCHANGED <<fcall, requests, currentUserAccountId>>
    /\ UNCHANGED codecVars
    /\ UNCHANGED actorVars
    /\ UNCHANGED mergeVars
    /\ UNCHANGED toolVars
    /\ UNCHANGED sprintVars

\* createIssue from the assignee on: build the fields and issue the POST
CreateFrom(o, accountId, sent) ==
    LET b == createIssueFields(o, accountId, today)
    IN  IF b.threw
        THEN /\ fstep' = "failed" /\ ferr' = "Unknown field"
             /\ requests' = sent
        ELSE /\ fstep' = "post" /\ ferr' = "none"
             /\ requests' = Append(sent, Request("POST", "/issue", b.fields))

\* createIssue is called: it asks /myself when the assignee is
\* 'currentuser()' and the cache is empty
CallCreateIssue ==
    /\ fstep = "idle"
    /\ \E o \in CreateInputs :
         /\ fcall' = [NoCall EXCEPT !.op = "createIssue", !.options = o]
         /\ IF NeedsCurrentUser(o) /\ currentUserAccountId = <<>>
            THEN /\ fstep' = "myself" /\ ferr' = "none"
                 /\ requests' = <<Request("GET", "/myself", NoFields)>>
            ELSE CreateFrom(o, currentUserAccountId, <<>>)
    /\ fret' = NoFieldRet
    /\ UNCHANGED currentUserAccountId
    /\ UNCHANGED codecVars
    /\ UNCHANGED actorVars
    /\ UNCHANGED mergeVars
    /\ UNCHANGED toolVars
    /\ UNCHANGED sprintVars

\* /myself answers: the account id is cached and the call goes on
MyselfOk ==
    /\ fstep = "myself"
    /\ currentUserAccountId' = Me
    /\ CreateFrom(fcall.options, Me, requests)
    /\ UNCHANGED <<fcall, fret>>
    /\ UNCHANGED codecVars
    /\ UNCHANGED actorVars
    /\ UNCHANGED mergeVars
    /\ UNCHANGED toolVars
    /\ UNCHANGED sprintVars

\* /myself fails: jiraFetch throws out of createIssue
MyselfFail ==
    /\ fstep = "myself"
    /\ fstep' = "failed"
    /\ ferr' = "GET failed"
    /\ UNCHANGED <<fcall, requests, fret, currentUserAccountId>>
    /\ UNCHANGED codecVars
    /\ UNCHANGED actorVars
    /\ UNCHANGED mergeVars
    /\ UNCHANGED toolVars
    /\ UNCHANGED sprintVars

\* Jira creates the issue: { key, id, self }
PostOk ==
    /\ fstep = "post"
    /\ fstep' = "done"
    /\ fret' = [NoFieldRet EXCEPT !.success = TRUE, !.key = <<"PROJ-1">>]
    /\ UNCHANGED <<fcall, requests, ferr, currentUserAccountId>>
    /\ UNCHANGED codecVars
    /\ UNCHANGED actorVars
    /\ UNCHANGED mergeVars
    /\ UNCHANGED toolVars
    /\ UNCHANGED sprintVars

\* Jira rejects the POST: jiraFetch throws
PostFail ==
    /\ fstep = "post"
    /\ fstep' = "failed"
    /\ ferr' = "POST failed"
    /\ UNCHANGED <<fcall, requests, fret, currentUserAccountId>>
    /\ UNCHANGED codecVars
    /\ UNCHANGED actorVars
    /\ UNCHANGED mergeVars
    /\ UNCHANGED toolVars
    /\ UNCHANGED sprintVars

\* the call's promise settles: the caller has its result or its error, and
\* only the module-level cache outlives the call
Settle ==
    /\ fstep \in {"done", "failed"}
    /\ fstep' = "idle" /\ fcall' = NoCall /\ requests' = <<>>
    /\ fret' = NoFieldRet /\ ferr' = "none"
    /\ UNCHANGED currentUserAccountId
    /\ UNCHANGED codecVars
    /\ UNCHANGED actorVars
    /\ UNCHANGED mergeVars
    /\ UNCHANGED toolVars
    /\ UNCHANGED sprintVars

FieldNext ==
    \/ CallUpdateIssueField
    \/ PutOk
    \/ PutFail
    \/ CallCreateIssue
    \/ MyselfOk
    \/ MyselfFail
    \/ PostOk
    \/ PostFail
    \/ Settle
    \/ Tick

SpecField == FieldInit /\ [][FieldNext]_vars

----------------------------------------------------------------------------
(* createIssue calls in flight at the same time: the current-actor cache *)

ActorInputs ==
    {[BareOptions EXCEPT !.projectKey = pk, !.assignee = a] :
        pk \in ProjectKeys, a \in Assignees}

Event(c, kind, fields) ==
    [caller |-> c, kind |-> kind, cached |-> currentUserAccountId # <<>>,
     fields |-> fields]

ActorInit ==
    /\ CodecQuiet
    /\ MergeQuiet(Null)
    /\ FieldQuiet
    /\ ToolQuiet
    /\ SprintQuiet
    /\ ActorQuiet

\* createIssue of caller c from the assignee on, with the log so far
ActorCreateFrom(c, accountId, log) ==
    LET b == createIssueFields(aopts'[c], accountId, today)
    IN  IF b.threw
        THEN /\ apc' = [apc EXCEPT ![c] = "failed"]
             /\ alog' = log
        ELSE /\ apc' = [apc EXCEPT ![c] = "post"]
             /\ alog' = Append(log, Event(c, "POST /issue", b.fields))

\* caller c calls createIssue: getCurrentUserAccountId returns the cached
\* id, or issues GET /myself when the cache is empty
ActorCall(c) ==
    /\ apc[c] = "idle"
    /\ \E o \in ActorInputs :
         /\ aopts' = [aopts EXCEPT ![c] = o]
         /\ IF NeedsCurrentUser(o) /\ currentUserAccountId = <<>>
            THEN /\ apc' = [apc EXCEPT ![c] = "myself"]
                 /\ alog' = Append(alog, Event(c, "GET /myself", NoFields))
            ELSE ActorCreateFrom(c, currentUserAccountId, alog)
    /\ UNCHANGED <<fstep, fcall, requests, fret, ferr, currentUserAccountId>>
    /\ UNCHANGED codecVars
    /\ UNCHANGED mergeVars
    /\ UNCHANGED toolVars
    /\ UNCHANGED sprintVars

\* /myself answers caller c: the id is stored in the cache, the call goes on
ActorMyselfOk(c) ==
    /\ apc[c] = "myself"
    /\ currentUserAccountId' = Me
    /\ UNCHANGED aopts
    /\ ActorCreateFrom(c, Me, Append(alog, Event(c, "myself answered", NoFields)))
    /\ UNCHANGED <<fstep, fcall, requests, fret, ferr>>
    /\ UNCHANGED codecVars
    /\ UNCHANGED mergeVars
    /\ UNCHANGED toolVars
    /\ UNCHANGED sprintVars

\* /myself fails for caller c: jiraFetch throws out of createIssue
ActorMyselfFail(c) ==
    /\ apc[c] = "myself"
    /\ apc' = [apc EXCEPT ![c] = "failed"]
    /\ UNCHANGED <<aopts, alog>>
    /\ UNCHANGED fieldVars
    /\ UNCHANGED codecVars
    /\ UNCHANGED mergeVars
    /\ UNCHANGED toolVars
    /\ UNCHANGED sprintVars

\* Jira answers the POST of caller c
ActorPostOk(c) ==
    /\ apc[c] = "post"
    /\ apc' = [apc EXCEPT ![c] = "done"]
    /\ UNCHANGED <<aopts, alog>>
    /\ UNCHANGED fieldVars
    /\ UNCHANGED codecVars
    /\ UNCHANGED mergeVars
    /\ UNCHANGED toolVars
    /\ UNCHANGED sprintVars

ActorPostFail(c) ==
    /\ apc[c] = "post"
    /\ apc' = [apc EXCEPT ![c] = "failed"]
    /\ UNCHANGED <<aopts, alog>>
    /\ UNCHANGED fieldVars
    /\ UNCHANGED codecVars
    /\ UNCHANGED mergeVars
    /\ UNCHANGED toolVars
    /\ UNCHANGED sprintVars

ActorNext ==
    \/ \E c \in Callers : ActorCall(c)
    \/ \E c \in Callers : ActorMyselfOk(c)
    \/ \E c \in Callers : ActorMyselfFail(c)
    \/ \E c \in Callers : ActorPostOk(c)
    \/ \E c \in Callers : ActorPostFail(c)

SpecActor == ActorInit /\ [][ActorNext]_vars

----------------------------------------------------------------------------
(* The MCP tool handlers, one invocation after another *)

Tools == {"add_comment", "get_issue_details", "update_issue_field",
          "update_progress", "create_issue"}

BlankOnlyEmpty(v) == ~Truthy(v)

\* !x || !x.trim()
Blank(v) == ~Truthy(v) \/ ~Truthy(Str(Trim(v.s)))

\* the checks at the head of each handler: the message of the Error they
\* throw, <<>> when they all pass
Validate(tool, a) ==
    CASE tool = "add_comment" ->
            IF Blank(a.issueKey) THEN <<"issueKey is required">>
            ELSE IF Blank(a.commentBody) THEN <<"commentBody is required">>
            ELSE <<>>
      [] tool = "get_issue_details" ->
            IF Blank(a.issueKey) THEN <<"issueKey is required">> ELSE <<>>
      [] tool = "update_issue_field" ->
            IF Blank(a.issueKey) THEN <<"issueKey is required">>
            ELSE IF Blank(a.fieldNameOrId) THEN <<"fieldNameOrId is required">>
            ELSE IF a.value.t \in {"undefined", "null"} THEN <<"value is required">>
            ELSE <<>>
      [] tool = "update_progress" ->
            IF Blank(a.issueKey) THEN <<"issueKey is required">>
            ELSE IF /\ ~Truthy(a.refreshDate)
                    /\ a.weeklyUpdate.t = "undefined"
                    /\ a.delivered.t = "undefined"
                    /\ a.whatsNext.t = "undefined"
            THEN <<"At least one of refreshDate, weeklyUpdate, delivered, or whatsNext must be provided">>
            ELSE <<>>
      [] tool = "create_issue" ->
            IF Blank(a.projectKey) THEN <<"projectKey is required">>
            ELSE IF Blank(a.issueType) THEN <<"issueType is required">>
            ELSE IF Blank(a.summary) THEN <<"summary is required">>
            ELSE <<>>

\* the options that the create_issue handler hands to createIssue
ToolOptions(a) ==
    [BareOptions EXCEPT !.projectKey = a.projectKey.s, !.issueType = a.issueType.s,
                        !.summary = a.summary.s, !.assignee = a.assignee,
                        !.customFields = a.customFields]

\* the catch block of a handler: { success: false, ...formatError(error) },
\* and formatError(error) alone in get_issue_details
ErrorResponse(tool, error) ==
    ToolResponse(TRUE, IF tool = "get_issue_details" THEN "absent" ELSE "false",
                 FALSE, TRUE, formatError(error))

\* the result of the client function, returned as structured content
SuccessResponse(tool) ==
    ToolResponse(FALSE, IF tool = "get_issue_details" THEN "absent" ELSE "true",
                 TRUE, FALSE, NoErrorObject)

\* the handler catches error and responds
Catch(error) ==
    /\ tstep' = "responded"
    /\ tthrown' = error
    /\ tresp' = ErrorResponse(tcall'.tool, error)

\* the handler awaits the answer to the request it has just issued
Await(reqs) ==
    /\ tstep' = "awaiting"
    /\ treqs' = reqs
    /\ tthrown' = NotThrown
    /\ tresp' = NoResponse

\* createIssue from the assignee on, inside the create_issue handler
ToolCreateFrom(a, accountId, sent) ==
    IF createIssueFields(ToolOptions(a), accountId, today).threw
    THEN Catch(NewError(<<"Unknown field">>)) /\ treqs' = sent
    ELSE Await(Append(sent, Request("POST", "/issue",
                   createIssueFields(ToolOptions(a), accountId, today).fields)))

\* the client function that the handler calls once its checks have passed,
\* up to its first request
CallClient(tool, a) ==
    CASE tool = "add_comment" ->
            Await(<<Request("POST", "/issue/comment", NoFields)>>)
      [] tool = "get_issue_details" ->
            Await(<<Request("GET", "/issue", NoFields)>>)
      [] tool = "update_issue_field" ->
            IF updateIssueField(a.fieldNameOrId.s, a.value).threw
            THEN /\ Catch(NewError(<<updateIssueField(a.fieldNameOrId.s, a.value).error>>))
                 /\ treqs' = <<>>
            ELSE Await(<<Request("PUT", "/issue",
                           updateIssueField(a.fieldNameOrId.s, a.value).fields)>>)
      [] tool = "update_progress" ->
            Await(<<Request("GET", "/issue", NoFields)>>)
      [] tool = "create_issue" ->
            IF NeedsCurrentUser(ToolOptions(a)) /\ currentUserAccountId = <<>>
            THEN Await(<<Request("GET", "/myself", NoFields)>>)
            ELSE ToolCreateFrom(a, currentUserAccountId, <<>>)

IssueKeys == {Undefined, Str(<<>>), Str(<<SP>>), Str(<<"K-1">>)}
CommentBodies == {Undefined, Str(<<>>), Str(<<NL>>), Str(<<"a">>)}
ToolFieldNames ==
    {Undefined, Str(<<>>), Str(<<SP>>), Str(<<"Health Status">>),
     Str(<<"Completion Percentage">>), Str(<<"Not A Real Field">>)}
ToolValues == ValueInputs \cup {Str(<<SP>>)}
RefreshDates == {Undefined, Bool(FALSE), Bool(TRUE)}
SectionTexts == {Undefined, Str(<<>>), Str(<<"a">>)}
ToolProjectKeys == {Undefined, Str(<<>>), Str(<<SP>>), Str(<<"PROJ">>), Str(<<"TSSE">>)}
IssueTypes == {Undefined, Str(<<>>), Str(<<SP>>), Str(<<"Task">>)}
Summaries == {Undefined, Str(<<>>), Str(<<SP>>), Str(<<"s">>)}
ToolAssignees == {Undefined, Str(CurrentUser), Str(<<"acct-7">>)}
ToolCustomFields ==
    {NoCustomFields,
     [set |-> TRUE, entries |-> <<[key |-> <<"Not A Real Field">>, value |-> Pct(42)]>>]}

\* the invocations of the model
ToolCalls ==
    {[tool |-> "add_comment",
      args |-> [NoToolArgs EXCEPT !.issueKey = k, !.commentBody = b]] :
        k \in IssueKeys, b \in CommentBodies}
    \cup {[tool |-> "get_issue_details", args |-> [NoToolArgs EXCEPT !.issueKey = k]] :
        k \in IssueKeys}
    \cup {[tool |-> "update_issue_field",
           args |-> [NoToolArgs EXCEPT !.issueKey = k, !.fieldNameOrId = f, !.value = v]] :
        k \in IssueKeys, f \in ToolFieldNames, v \in ToolValues}
    \cup {[tool |-> "update_progress",
           args |-> [NoToolArgs EXCEPT !.issueKey = k, !.refreshDate = r,
                                       !.weeklyUpdate = w, !.delivered = d,
                                       !.whatsNext = n]] :
        k \in IssueKeys, r \in RefreshDates, w \in SectionTexts, d \in SectionTexts,
        n \in SectionTexts}
    \cup {[tool |-> "create_issue",
           args |-> [NoToolArgs EXCEPT !.projectKey = pk, !.issueType = it,
                                       !.summary = su, !.assignee = as,
                                       !.customFields = cf]] :
        pk \in ToolProjectKeys, it \in IssueTypes, su \in Summaries,
        as \in ToolAssignees, cf \in ToolCustomFields}

\* the sub-errors of Jira's error bodies
FieldErrors == Obj("plain", <<"summary: Summary is required">>)
NoFieldErrors == Obj("plain", <<>>)

StatusTexts == (400 :> <<"Bad Request">>) @@ (404 :> <<"Not Found">>)
                   @@ (500 :> <<"Internal Server Error">>)

\* the non-success responses of the model: Jira's error collections, a JSON
\* body with a message only, an HTML page and an empty body, each with the
\* status text of HTTP/1.1 and with the empty one of HTTP/2
RemoteFailures ==
    {Response(st, IF h2 THEN <<>> ELSE StatusTexts[st], b.json, b.hasErrorMessages,
              b.errorMessages, b.message, b.errors, b.body) :
        st \in DOMAIN StatusTexts, h2 \in BOOLEAN,
        b \in {[json |-> TRUE, hasErrorMessages |-> TRUE,
                errorMessages |-> <<<<"Issue does not exist">>, <<"or no permission">>>>,
                message |-> Undefined, errors |-> NoFieldErrors, body |-> <<"{...}">>],
               [json |-> TRUE, hasErrorMessages |-> TRUE, errorMessages |-> <<>>,
                message |-> Undefined, errors |-> FieldErrors, body |-> <<"{...}">>],
               [json |-> TRUE, hasErrorMessages |-> FALSE, errorMessages |-> <<>>,
                message |-> Str(<<"Rate limit exceeded">>), errors |-> Undefined,
                body |-> <<"{...}">>],
               [json |-> FALSE, hasErrorMessages |-> FALSE, errorMessages |-> <<>>,
                message |-> Undefined, errors |-> Undefined, body |-> <<"<html>">>],
               [json |-> FALSE, hasErrorMessages |-> FALSE, errorMessages |-> <<>>,
                message |-> Undefined, errors |-> Undefined, body |-> <<>>]}}

ToolInit ==
    /\ CodecQuiet
    /\ MergeQuiet(Null)
    /\ FieldQuiet
    /\ ToolQuiet
    /\ SprintQuiet
    /\ ActorQuiet

\* a tool is invoked: its handler checks the arguments and, when they pass,
\* calls the client function, which runs up to its first request
Invoke ==
    /\ tstep = "idle"
    /\ \E c \in ToolCalls :
         /\ tcall' = c
         /\ IF Validate(c.tool, c.args) # <<>>
            THEN Catch(NewError(Validate(c.tool, c.args))) /\ treqs' = <<>>
            ELSE CallClient(c.tool, c.args)
    /\ tremote' = NoRemote
    /\ UNCHANGED <<fstep, fcall, requests, fret, ferr, currentUserAccountId>>
    /\ UNCHANGED codecVars
    /\ UNCHANGED mergeVars
    /\ UNCHANGED actorVars
    /\ UNCHANGED sprintVars

\* Jira answers the request with success: the client function goes on to
\* its next request, or returns and the handler responds
RemoteOk ==
    /\ tstep = "awaiting"
    /\ tcall' = tcall
    /\ IF treqs[Len(treqs)].endpoint = "/myself"
       THEN /\ currentUserAccountId' = Me
            /\ ToolCreateFrom(tcall.args, Me, treqs)
       ELSE /\ UNCHANGED currentUserAccountId
            /\ IF tcall.tool = "update_progress" /\ Len(treqs) = 1
               THEN Await(Append(treqs, Request("PUT", "/issue", NoFields)))
               ELSE /\ tstep' = "responded"
                    /\ tresp' = SuccessResponse(tcall.tool)
                    /\ UNCHANGED <<treqs, tthrown>>
    /\ UNCHANGED tremote
    /\ UNCHANGED <<fstep, fcall, requests, fret, ferr>>
    /\ UNCHANGED codecVars
    /\ UNCHANGED mergeVars
    /\ UNCHANGED actorVars
    /\ UNCHANGED sprintVars

\* Jira answers with a non-success status: jiraFetch throws errorData
RemoteFail ==
    /\ tstep = "awaiting"
    /\ tcall' = tcall
    /\ \E r \in RemoteFailures :
         /\ tremote' = r
         /\ Catch(jiraFetchError(r))
    /\ UNCHANGED treqs
    /\ UNCHANGED <<fstep, fcall, requests, fret, ferr, currentUserAccountId>>
    /\ UNCHANGED codecVars
    /\ UNCHANGED mergeVars
    /\ UNCHANGED actorVars
    /\ UNCHANGED sprintVars

\* fetch rejects: no response came
FetchRejects ==
    /\ tstep = "awaiting"
    /\ tcall' = tcall
    /\ Catch(NewError(<<"fetch failed">>))
    /\ UNCHANGED <<treqs, tremote>>
    /\ UNCHANGED <<fstep, fcall, requests, fret, ferr, currentUserAccountId>>
    /\ UNCHANGED codecVars
    /\ UNCHANGED mergeVars
    /\ UNCHANGED actorVars
    /\ UNCHANGED sprintVars

\* the answer has a success status, but response.json() rejects or the
\* client function throws a TypeError on what it finds in it
ReplyUnreadable ==
    /\ tstep = "awaiting"
    /\ tcall' = tcall
    /\ \E m \in {<<"Unexpected token < in JSON">>,
                  <<"Cannot read properties of undefined">>} :
         Catch(NewError(m))
    /\ UNCHANGED <<treqs, tremote>>
    /\ UNCHANGED <<fstep, fcall, requests, fret, ferr, currentUserAccountId>>
    /\ UNCHANGED codecVars
    /\ UNCHANGED mergeVars
    /\ UNCHANGED actorVars
    /\ UNCHANGED sprintVars

\* the transport has the response; only the module-level cache outlives
\* the invocation
ToolSettle ==
    /\ tstep = "responded"
    /\ tstep' = "idle" /\ tcall' = NoToolCall /\ treqs' = <<>>
    /\ tthrown' = NotThrown /\ tremote' = NoRemote /\ tresp' = NoResponse
    /\ UNCHANGED <<fstep, fcall, requests, fret, ferr, currentUserAccountId>>
    /\ UNCHANGED codecVars
    /\ UNCHANGED mergeVars
    /\ UNCHANGED actorVars
    /\ UNCHANGED sprintVars

ToolNext ==
    \/ Invoke
    \/ RemoteOk
    \/ RemoteFail
    \/ FetchRejects
    \/ ReplyUnreadable
    \/ ToolSettle

SpecTool == ToolInit /\ [][ToolNext]_vars

----------------------------------------------------------------------------
(* calculateSprintLabel, called for one of the two weeks *)

SprintInit ==
    /\ CodecQuiet
    /\ MergeQuiet(Null)
    /\ FieldQuiet
    /\ ToolQuiet
    /\ ActorQuiet
    /\ sweek = "none" /\ sprint = NoSprint
    /\ snow \in {date \in ClockDates : date.d <= DaysInMonth(date.y, date.m)}

\* getSprintTasks maps the week to its offset and calls calculateSprintLabel
CalculateSprintLabel ==
    /\ sweek = "none"
    /\ \E week \in {"this_week", "next_week"} :
         /\ sweek' = week
         /\ sprint' = calculateSprintLabel(snow, WeekOffset(week))
    /\ UNCHANGED snow
    /\ UNCHANGED codecVars
    /\ UNCHANGED mergeVars
    /\ UNCHANGED fieldVars
    /\ UNCHANGED actorVars
    /\ UNCHANGED toolVars

SprintNext == CalculateSprintLabel

SpecSprint == SprintInit /\ [][SprintNext]_vars

----------------------------------------------------------------------------
(* Properties *)

ParsedTriple == [w |-> parsed.weeklyUpdate, d |-> parsed.delivered, n |-> parsed.whatsNext]

\* C1: parsing the document generated from (weekOf, delivered, whatsNext), weekOf
\* holding no colon, returns the same triple.
C1_RoundTrip ==
    (pkind = "triple" /\ pstep = "parsed" /\ ~Includes(args.w, <<COLON>>))
        => (~parsed.threw /\ ParsedTriple = args)

\* C6: parseProgressUpdateADF returns a result for every input value; it never throws.
C6_ParseNeverThrows ==
    pstep = "parsed" => ~parsed.threw

RECURSIVE TokensOf(_)
RECURSIVE TokensOfAll(_)
\* every token of every text run below a node
TokensOfAll(nodes) ==
    IF Len(nodes) = 0 THEN {} ELSE TokensOf(nodes[1]) \cup TokensOfAll(Tail(nodes))

TokensOf(node) ==
    (IF node.hasText THEN {node.text[i] : i \in 1..Len(node.text)} ELSE {})
        \cup TokensOfAll(node.content)

\* a top-level block that is a panel or a paragraph naming one of the three headers
NamesSection(b) ==
    b.type \in {"panel", "paragraph"} /\ TokensOf(b) \cap {UW, DL, WN} # {}

DefaultResult ==
    [threw |-> FALSE, weeklyUpdate |-> <<PH>>, delivered |-> <<>>, whatsNext |-> <<>>]

\* C7: the parser returns {weeklyUpdate: "[date]", delivered: "", whatsNext: ""} when
\* its input is null, not an object, has no content array, or has no top-level block
\* that is a panel or a paragraph with one of the three section headers.
C7_Defaults ==
    (pkind = "raw" /\ pstep = "parsed"
        /\ (doc.k # "obj" \/ doc.ck # "array"
              \/ \A i \in 1..Len(doc.content) : ~NamesSection(doc.content[i])))
        => parsed = DefaultResult

RECURSIVE DotJoined(_)
\* the items, each but the last followed by ". "
DotJoined(items) ==
    IF Len(items) = 0 THEN <<>>
    ELSE IF Len(items) = 1 THEN items[1]
    ELSE items[1] \o <<DOT, SP>> \o DotJoined(Tail(items))

\* C9: a legacy panel headed 'Update for week of <date>:' yields weekOf = <date>,
\* followed by " - " and its bullet items joined by ". " when it has items; the
\* panels headed 'delivered so far' and "What's next" yield their items joined by ". ".
C9_LegacyPanels ==
    (pkind = "panel" /\ pstep = "parsed")
        => /\ ~parsed.threw
           /\ parsed.weeklyUpdate =
                 (IF Len(args.wk) = 0 THEN <<args.date>>
                  ELSE <<args.date, SP, DASH, SP>> \o DotJoined(args.wk))
           /\ parsed.delivered = DotJoined(args.dl)
           /\ parsed.whatsNext = DotJoined(args.wn)

C9_Witness ==
    /\ pkind = "panel" /\ pstep = "parsed"
    /\ args.icon /\ args.date = "December 1, 2025" /\ args.wk = <<<<"a">>>>
    /\ Len(args.dl) = 2
    /\ parsed.weeklyUpdate = <<"December 1, 2025", SP, DASH, SP, "a">>

----------------------------------------------------------------------------
(* Properties of updateProgressField *)

Existing(c) == parseProgressUpdateADF(readVal[c])

OnlyDelivered(o) ==
    ~o.refreshDate /\ ~o.weeklyUpdate.set /\ o.delivered.set /\ ~o.whatsNext.set

RefreshOnly(o) ==
    o.refreshDate /\ ~o.weeklyUpdate.set /\ ~o.delivered.set /\ ~o.whatsNext.set

\* the document Jira holds is the one of the last PUT it applied
Persisted == IF Len(written) = 0 THEN initial ELSE sentDoc[written[Len(written)]]

\* C2: a call that supplies only `delivered` reports exactly ["delivered"] and
\* persists the document generated from (existing.weekOf, the supplied delivered,
\* existing.whatsNext); every section whose option is absent is carried over
\* from the parse of the value read at the start of the call.
C2_PartialUpdate ==
    \A c \in Callers :
        upc[c] = "done" =>
            LET ex == Existing(c)
                o  == opts[c]
            IN  /\ OnlyDelivered(o) =>
                      /\ ret[c].updatedSections = <<"delivered">>
                      /\ sentDoc[c] = createProgressUpdateADF(
                                          ex.weeklyUpdate, o.delivered.v, ex.whatsNext)
                /\ ~(o.refreshDate \/ o.weeklyUpdate.set) =>
                      sentDoc[c].content[1] =
                          createADFParagraph(<<UW, SP>> \o ex.weeklyUpdate \o <<COLON>>,
                                             InfoEmoji)
                /\ ~o.delivered.set =>
                      sentDoc[c].content[2] =
                          createADFParagraph(<<DL, COLON, SP>> \o ex.delivered, CheckEmoji)
                /\ ~o.whatsNext.set =>
                      sentDoc[c].content[3] =
                          createADFParagraph(<<WN, COLON, SP>> \o ex.whatsNext,
                                             QuestionEmoji)
                /\ (Len(written) > 0 /\ written[Len(written)] = c) => store = sentDoc[c]

C2_Witness ==
    /\ upc["c1"] = "done" /\ OnlyDelivered(opts["c1"]) /\ upc["c2"] = "idle"
    /\ initial = createProgressUpdateADF(<<OldDay, SP, DASH, SP, "x">>, <<"y">>, <<"z">>)
    /\ store = createProgressUpdateADF(<<OldDay, SP, DASH, SP, "x">>, <<"b">>, <<"z">>)
    /\ ret["c1"].success

Other(c) == CHOOSE d \in Callers : d # c

\* what a document holds in its delivered paragraph, as the parser reads it back
DeliveredOf(d) == parseProgressUpdateADF(d).delivered

\* C3: when two calls on the same issue both read before either writes, both report
\* success, the stored document is the later writer's, computed from the value both
\* read, and a section only the earlier writer supplied is lost.
C3_LostUpdate ==
    \A c \in Callers :
        LET d == Other(c)
        IN  (written = <<d, c>> /\ readVer[c] = 0 /\ readVer[d] = 0) =>
                /\ ret[c].success /\ ret[d].success
                /\ err[c] = "none" /\ err[d] = "none"
                /\ readVal[c] = initial /\ readVal[d] = initial
                /\ store = sentDoc[c]
                /\ (opts[d].delivered.set /\ ~opts[c].delivered.set) =>
                       DeliveredOf(store) = DeliveredOf(initial)

C3_Witness ==
    /\ written = <<"c1", "c2">> /\ readVer["c1"] = 0 /\ readVer["c2"] = 0
    /\ ret["c1"].success /\ ret["c2"].success
    /\ opts["c1"].delivered = Given(<<"b">>) /\ ~opts["c2"].delivered.set
    /\ opts["c2"].whatsNext.set
    /\ DeliveredOf(sentDoc["c1"]) = <<"b">>
    /\ DeliveredOf(store) = <<"y">>

\* x is white space, an optional hyphen, white space
IsSeparator(x) ==
    \E i \in 0..Len(x) :
        /\ \A j \in 1..i : x[j] \in WS
        /\ \/ i = Len(x)
           \/ x[i + 1] = DASH /\ \A j \in (i + 2)..Len(x) : x[j] \in WS

\* w without a leading token of `lead` and the longest separator after it
WithoutLeading(w, lead) ==
    IF Len(w) > 0 /\ w[1] \in lead
    THEN LET ks == {k \in 1..Len(w) : IsSeparator(SubSeq(w, 2, k))}
             k  == CHOOSE m \in ks : \A n \in ks : n <= m
         IN  SubSeq(w, k + 1, Len(w))
    ELSE w

\* the weekly narrative tail: the date, then the placeholder, taken off the front
NarrativeTail(w) == WithoutLeading(WithoutLeading(w, Dates), {PH})

\* C4: a call with refreshDate=true and no other option persists delivered and
\* whatsNext as parsed from the existing value, and weekOf = today's date, followed
\* by " - " and the existing narrative tail (the existing weekOf without its leading
\* formatted date, `[date]` placeholder and the separator after each) unless that
\* tail is empty.
C4_RefreshPreserves ==
    \A c \in Callers :
        (upc[c] \in {"writing", "done"} /\ RefreshOnly(opts[c])) =>
            LET ex == Existing(c)
                tail == NarrativeTail(ex.weeklyUpdate)
            IN  /\ sentDoc[c] = createProgressUpdateADF(
                       IF Len(tail) = 0 THEN <<dateUsed[c]>>
                       ELSE <<dateUsed[c], SP, DASH, SP>> \o tail,
                       ex.delivered, ex.whatsNext)
                /\ ret[c].updatedSections = <<"weeklyUpdate (date refreshed)">>
                /\ (upc[c] = "done" /\ written[Len(written)] = c) => store = sentDoc[c]

C4_Witness ==
    /\ upc["c1"] = "done" /\ RefreshOnly(opts["c1"]) /\ upc["c2"] = "idle"
    /\ initial = createProgressUpdateADF(<<OldDay, SP, DASH, SP, "x">>, <<"y">>, <<"z">>)
    /\ store = createProgressUpdateADF(<<NextDay, SP, DASH, SP, "x">>, <<"y">>, <<"z">>)

\* C5: two successive calls with refreshDate=true, the date unchanged and no other
\* writer in between, leave the same stored document after the second as after the
\* first.
C5_RefreshIdempotent ==
    \A c \in Callers :
        LET d == Other(c)
        IN  (written = <<d, c>> /\ readVer[c] = 1
               /\ RefreshOnly(opts[c]) /\ RefreshOnly(opts[d])
               /\ dateUsed[c] = dateUsed[d])
                => sentDoc[c] = sentDoc[d]

\* C10: a call issues one GET and then at most one PUT, the PUT only after the GET
\* answered; nothing is retried; a call whose GET failed issued no PUT; a call that
\* ended in an error left the stored field alone.
C10_OneReadOneWrite ==
    /\ store = Persisted
    /\ \A c \in Callers :
        /\ nreads[c] <= 1 /\ nwrites[c] <= 1
        /\ nwrites[c] = 1 => (nreads[c] = 1 /\ upc[c] \in {"writing", "done", "failed"})
        /\ upc[c] = "reading" => (nreads[c] = 1 /\ nwrites[c] = 0)
        /\ err[c] = "GET failed" => nwrites[c] = 0
        /\ upc[c] = "done" => (nreads[c] = 1 /\ nwrites[c] = 1 /\ err[c] = "none")
        /\ upc[c] = "failed" =>
              /\ err[c] # "none" /\ ~ret[c].success
              /\ \A i \in 1..Len(written) : written[i] # c
              /\ upc[Other(c)] \in {"idle", "reading", "failed"} => store = initial

C10_Witness ==
    /\ upc["c1"] = "failed" /\ err["c1"] = "PUT failed"
    /\ nreads["c1"] = 1 /\ nwrites["c1"] = 1
    /\ upc["c2"] = "failed" /\ err["c2"] = "GET failed" /\ nwrites["c2"] = 0
    /\ sentDoc["c1"] # initial /\ store = initial

----------------------------------------------------------------------------
(* Properties of updateIssueField and createIssue *)

\* the call has issued its write request, and the fields that request carries
WriteSent  == Len(requests) > 0 /\ requests[Len(requests)].method \in {"PUT", "POST"}
SentFields == requests[Len(requests)].fields

\* the Completion Percentage field, addressed by name or by identifier
CompletionKeys == {<<"Completion Percentage">>, CompletionPercentageId}

\* the request carries p / 100 for the field: hundred times the wire value is p
DividedOnce(p, fields) ==
    /\ CompletionPercentageId \in DOMAIN fields
    /\ fields[CompletionPercentageId].t = "number"
    /\ fields[CompletionPercentageId].n * 100 = p.n

\* the customFields entries of the call that address the field
CompletionEntries ==
    {i \in 1..Len(fcall.options.customFields.entries) :
        fcall.options.customFields.entries[i].key \in CompletionKeys}

\* updateIssueField on the field sends value / 100
C8_UpdatePath ==
    (fcall.op = "updateIssueField" /\ WriteSent
        /\ fcall.fieldNameOrId \in CompletionKeys /\ fcall.value.t = "number")
        => DividedOnce(fcall.value, SentFields)

\* createIssue sends completionPercentage / 100
C8_CreateOption ==
    (fcall.op = "createIssue" /\ WriteSent /\ CompletionEntries = {}
        /\ fcall.options.completionPercentage.t = "number")
        => DividedOnce(fcall.options.completionPercentage, SentFields)

\* createIssue sends the customFields entry for the field divided by 100
C8_CreateCustomField ==
    (fcall.op = "createIssue" /\ WriteSent /\ CompletionEntries # {})
        => LET last == CHOOSE i \in CompletionEntries :
                           \A j \in CompletionEntries : j <= i
               p == fcall.options.customFields.entries[last].value
           IN  p.t = "number" => DividedOnce(p, SentFields)

\* C8: a completion percentage p is divided by 100 exactly once before it is
\* sent, on every path: updateIssueField on the field by name or by id, the
\* completionPercentage option of createIssue, and a customFields entry of
\* createIssue keyed by the field's name or id
C8_DividedOnce == C8_UpdatePath /\ C8_CreateOption /\ C8_CreateCustomField

----------------------------------------------------------------------------
(* Properties of the current-actor cache *)

\* the positions of the log that hold an event of the kind
EventsOf(kind) == {i \in 1..Len(alog) : alog[i].kind = kind}

\* the account id is fetched at most once
C11_FetchedOnce == Cardinality(EventsOf("myself answered")) <= 1

\* no GET /myself is issued once the cache is populated
C11_NoFetchWhenCached == \A i \in EventsOf("GET /myself") : ~alog[i].cached

\* the cached value never changes once it is set
C11_CacheStable ==
    [][currentUserAccountId # <<>> => currentUserAccountId' = currentUserAccountId]_vars

\* C11: the current actor's account id is fetched from /myself at most once
\* per process lifetime, also when several createIssue calls that need it are
\* in flight at the same time, and no fetch is issued once the cache is set
C11_CachePopulatedOnce == C11_FetchedOnce /\ C11_NoFetchWhenCached

----------------------------------------------------------------------------
(* Properties of resolveFieldId and of the coercion of updateIssueField *)

\* the registered identifiers whose display name is the input, case ignored
NamedBy(f) ==
    {id \in DOMAIN CUSTOM_FIELD_MAP : toLowerCase(CUSTOM_FIELD_MAP[id]) = toLowerCase(f)}

\* the call got past resolveFieldId with this identifier
ResolvedTo(id) ==
    /\ ferr # "Unknown field"
    /\ fstep \in {"put", "done"} => fret.fieldId = id

\* C13: resolveFieldId returns the registered identifier for every display
\* name compared case-insensitively, returns an input in canonical-identifier
\* form unchanged, and fails with 'Unknown field' for every other input
C13_ResolveFieldId ==
    fcall.op = "updateIssueField" =>
        LET f == fcall.fieldNameOrId
        IN  IF StartsWithPrefix(f) THEN ResolvedTo(f)
            ELSE IF NamedBy(f) # {} THEN \A id \in NamedBy(f) : ResolvedTo(id)
            ELSE fstep = "failed" /\ ferr = "Unknown field"

\* the values of the model that parse as a number
ParseableValues == {Pct(0), Pct(42), Pct(100), Str(<<"42">>), Str(<<SP, "42", "%">>)}

\* the registered identifiers of number type that the input addresses
NumberFieldsOf(f) ==
    {id \in DOMAIN CUSTOM_FIELD_TYPES :
        /\ CUSTOM_FIELD_TYPES[id] = "number"
        /\ f = id \/ id \in NamedBy(f)}

\* C14: when updateIssueField fails because the field does not resolve or
\* because the value for a number field does not parse as a number, the call
\* ends in an error and no request is sent; a value that is not a number is
\* never written to a number field
C14_ValidationWritesNothing ==
    fcall.op = "updateIssueField" =>
        /\ ferr \in {"Unknown field", "Invalid number value"}
               => fstep = "failed" /\ requests = <<>>
        /\ (NumberFieldsOf(fcall.fieldNameOrId) # {} /\ fcall.value \notin ParseableValues)
               => requests = <<>> /\ fstep = "failed" /\ ferr = "Invalid number value"

C14_Witness ==
    /\ fcall.op = "updateIssueField" /\ fstep = "failed"
    /\ fcall.fieldNameOrId = <<"COMPLETION PERCENTAGE">> /\ fcall.value = Str(<<"abc">>)
    /\ ferr = "Invalid number value" /\ requests = <<>>

----------------------------------------------------------------------------
(* Properties of extractTextFromADFNode *)

\* the node kinds the codec reads or writes
ModelledKinds ==
    {"doc", "paragraph", "text", "emoji", "panel", "heading", "bulletList", "listItem"}

IsTextRun(node) ==
    node.k = "obj" /\ node.type = "text" /\ node.hasText /\ Len(node.text) > 0
HasChildren(node) == node.k = "obj" /\ node.ck = "array"

\* the children's extracted texts joined by single spaces and trimmed
ChildrenText(node) ==
    Trim(Join([i \in 1..Len(node.content) |-> extractTextFromADFNode(node.content[i])],
              <<SP>>))

\* C15 as amended: a text run yields its string; any other node with a
\* children array, of whatever kind, yields its children's texts joined by
\* single spaces and trimmed; every other value yields the empty string
C15_ExtractLenient ==
    pstep = "extracted" =>
        IF IsTextRun(doc) THEN extracted = doc.text
        ELSE IF HasChildren(doc) THEN extracted = ChildrenText(doc)
        ELSE extracted = <<>>

C15_Witness ==
    /\ pstep = "extracted" /\ extracted = <<"a", SP, "b", SP, "c">>
    /\ doc.type = "paragraph" /\ doc.content[1].type = "table"

\* C15: extractTextFromADFNode never throws; a text run yields its string, a
\* node with children yields their texts joined by single spaces and trimmed,
\* and a node of a kind the system does not model (a table) or a node missing
\* its expected fields yields the empty string for its subtree
C15_UnmodelledKindEmpty ==
    pstep = "extracted" =>
        IF doc.k = "obj" /\ doc.type \notin ModelledKinds THEN extracted = <<>>
        ELSE IF IsTextRun(doc) THEN extracted = doc.text
        ELSE IF HasChildren(doc) THEN extracted = ChildrenText(doc)
        ELSE extracted = <<>>

----------------------------------------------------------------------------
(* More properties of updateProgressField *)

AllAbsent(o) ==
    ~o.refreshDate /\ ~o.weeklyUpdate.set /\ ~o.delivered.set /\ ~o.whatsNext.set

\* C16: a call with all four options absent returns the parsed existing state
\* with an empty updatedSections and leaves the stored field value unchanged
C16_AllAbsentNoOp ==
    \A c \in Callers :
        (upc[c] = "done" /\ AllAbsent(opts[c]) /\ written = <<c>>) =>
            /\ ret[c].success
            /\ ret[c].updatedSections = <<>>
            /\ ret[c].parsedExisting = Existing(c)
            /\ store = initial

\* the weekOf paragraph a document holds
WeekParagraph(w) == createADFParagraph(<<UW, SP>> \o w \o <<COLON>>, InfoEmoji)

\* C17: when both refreshDate and weeklyUpdate are supplied, the persisted
\* weekOf is today's formatted date plus " - " and the supplied weeklyUpdate
\* (the date alone when it is the empty string); the stored narrative is
\* discarded
C17_WeeklyOverridesRefresh ==
    \A c \in Callers :
        (upc[c] \in {"writing", "done"} /\ opts[c].refreshDate /\ opts[c].weeklyUpdate.set) =>
            /\ sentDoc[c].content[1] =
                   WeekParagraph(IF Len(opts[c].weeklyUpdate.v) = 0 THEN <<dateUsed[c]>>
                                 ELSE <<dateUsed[c], SP, DASH, SP>> \o opts[c].weeklyUpdate.v)
            /\ (upc[c] = "done" /\ written[Len(written)] = c) => store = sentDoc[c]

C17_Witness ==
    /\ upc["c1"] = "done" /\ upc["c2"] = "idle"
    /\ opts["c1"].refreshDate /\ opts["c1"].weeklyUpdate = Given(<<"a">>)
    /\ initial = createProgressUpdateADF(<<OldDay, SP, DASH, SP, "x">>, <<"y">>, <<"z">>)
    /\ store.content[1] = WeekParagraph(<<FirstDay, SP, DASH, SP, "a">>)

WeeklyLabels == {"weeklyUpdate (date refreshed)", "weeklyUpdate"}

\* how many of the labels belong to the set
CountIn(labels, set) == Cardinality({i \in 1..Len(labels) : labels[i] \in set})

\* the labels come in the order weekly, delivered, whatsNext
LabelRank(l) == IF l \in WeeklyLabels THEN 1 ELSE IF l = "delivered" THEN 2 ELSE 3
InSectionOrder(labels) ==
    \A i, j \in 1..Len(labels) : i < j => LabelRank(labels[i]) < LabelRank(labels[j])

\* C18: updatedSections holds exactly one label for each section the call
\* changed and none for the others, in the order weekly, delivered,
\* whatsNext; a supplied empty string counts as supplied; parsedExisting is
\* the state parsed from the field before the update
C18_UpdatedSections ==
    \A c \in Callers :
        upc[c] = "done" =>
            LET o == opts[c]
                labels == ret[c].updatedSections
            IN  /\ CountIn(labels, WeeklyLabels)
                       = (IF o.refreshDate \/ o.weeklyUpdate.set THEN 1 ELSE 0)
                /\ CountIn(labels, {"delivered"}) = (IF o.delivered.set THEN 1 ELSE 0)
                /\ CountIn(labels, {"whatsNext"}) = (IF o.whatsNext.set THEN 1 ELSE 0)
                /\ Len(labels) = CountIn(labels, WeeklyLabels \cup {"delivered", "whatsNext"})
                /\ InSectionOrder(labels)
                /\ ret[c].parsedExisting = Existing(c)

----------------------------------------------------------------------------
(* The date component of weekOf *)

\* w is not empty and begins with a formatted date or the placeholder
CarriesDate(w) == Len(w) > 0 /\ w[1] \in Dates \cup {PH}

\* s is a string: a finite sequence of tokens, never undefined or null
IsText(s) == DOMAIN s = 1..Len(s) /\ \A i \in DOMAIN s : s[i] \in STRING

\* C20: in every result of parseProgressUpdateADF weekOf is never empty and
\* begins with a formatted date or the placeholder `[date]`; delivered and
\* whatsNext are always strings
C20_WeekOfCarriesDate ==
    (pstep = "parsed" /\ ~parsed.threw) =>
        /\ CarriesDate(parsed.weeklyUpdate)
        /\ IsText(parsed.delivered)
        /\ IsText(parsed.whatsNext)

----------------------------------------------------------------------------
(* Missing arguments *)

\* the arguments that each tool requires and that are text
RequiredText ==
    [add_comment |-> {"issueKey", "commentBody"},
     get_issue_details |-> {"issueKey"},
     update_issue_field |-> {"issueKey", "fieldNameOrId"},
     update_progress |-> {"issueKey"},
     create_issue |-> {"projectKey", "issueType", "summary"}]

\* the caller gave no v
Missing(v) == v.t \in {"undefined", "null"}

\* v is a string of nothing but whitespace
BlankText(v) == v.t = "string" /\ \A i \in 1..Len(v.s) : v.s[i] \in WS

\* a required text argument of the invocation is missing or blank
TextMissingOrBlank ==
    \E f \in RequiredText[tcall.tool] :
        Missing(tcall.args[f]) \/ BlankText(tcall.args[f])

\* update_progress received none of refreshDate = true, weeklyUpdate,
\* delivered, whatsNext
NothingToUpdate ==
    /\ tcall.tool = "update_progress"
    /\ tcall.args.refreshDate # Bool(TRUE)
    /\ tcall.args.weeklyUpdate = Undefined
    /\ tcall.args.delivered = Undefined
    /\ tcall.args.whatsNext = Undefined

\* the invocation ended in an error response and issued no request
Rejected ==
    /\ tstep = "responded"
    /\ tresp.isError /\ tresp.hasError /\ ~tresp.payload
    /\ treqs = <<>>

\* C12 as stated: an invocation with a required argument missing or blank,
\* the value of update_issue_field included, ends in an error response
\* without any request to Jira
C12_MissingOrBlankRejected ==
    (/\ tcall.tool \in Tools
     /\ \/ TextMissingOrBlank
        \/ NothingToUpdate
        \/ /\ tcall.tool = "update_issue_field"
           /\ Missing(tcall.args.value) \/ BlankText(tcall.args.value))
        => Rejected

\* C12: an invocation with a required text argument missing or blank, with
\* the value of update_issue_field missing, or with nothing for
\* update_progress to update, ends in an error response without any request
\* to Jira
C12_MissingRejected ==
    (/\ tcall.tool \in Tools
     /\ \/ TextMissingOrBlank
        \/ NothingToUpdate
        \/ tcall.tool = "update_issue_field" /\ Missing(tcall.args.value))
        => Rejected

\* update_issue_field was invoked with a blank issue key and everything
\* else in order, and was rejected
C12_Witness ==
    /\ Rejected
    /\ tcall.tool = "update_issue_field"
    /\ tcall.args.issueKey = Str(<<SP>>)
    /\ tcall.args.fieldNameOrId = Str(<<"Health Status">>)
    /\ tcall.args.value = Str(<<"abc">>)

----------------------------------------------------------------------------
(* Structured errors *)

\* C19: whatever a handler catches ends the invocation with a response
\* marked isError that holds an error object with the message of what was
\* caught and no success payload; after a non-success response of Jira the
\* error object holds the status code of that response and, when its body
\* was JSON, the errors member of that body as details
C19_StructuredErrors ==
    /\ tthrown # NotThrown =>
          /\ tstep = "responded"
          /\ tresp.isError /\ tresp.hasError
          /\ ~tresp.payload /\ tresp.success # "true"
          /\ tresp.error.message = tthrown.message
    /\ tremote # NoRemote =>
          /\ tthrown # NotThrown
          /\ tresp.error.hasStatusCode
          /\ tresp.error.statusCode = tremote.status
          /\ tremote.json =>
                tresp.error.hasDetails /\ tresp.error.details = tremote.errors
    /\ (tstep = "responded" /\ tthrown = NotThrown) =>
          ~tresp.isError /\ ~tresp.hasError /\ tresp.payload

\* Jira rejected a request with sub-errors, and the response holds them
C19_Witness ==
    /\ tstep = "responded"
    /\ tremote # NoRemote
    /\ tremote.errors = FieldErrors
    /\ tresp.error.details = FieldErrors

----------------------------------------------------------------------------
(* Canonical output *)

\* p is a paragraph of an emoji marker and one text run that begins, after
\* the blank that follows the marker, with the header
MarkedParagraph(p, emoji, header) ==
    /\ p.k = "obj" /\ p.type = "paragraph" /\ p.ck = "array"
    /\ Len(p.content) = 2
    /\ p.content[1].type = "emoji" /\ p.content[1].attrs = emoji
    /\ p.content[2].type = "text" /\ p.content[2].hasText
    /\ Len(p.content[2].text) >= Len(header) + 1
    /\ SubSeq(p.content[2].text, 1, Len(header) + 1) = <<SP>> \o header

\* d is in the paragraph encoding: three paragraphs, week-of, delivered,
\* what's-next, and nothing else
Canonical(d) ==
    /\ d.k = "obj" /\ d.type = "doc" /\ d.ck = "array"
    /\ Len(d.content) = 3
    /\ MarkedParagraph(d.content[1], "atlassian-info", <<UW>>)
    /\ MarkedParagraph(d.content[2], "atlassian-check_mark", <<DL, COLON>>)
    /\ MarkedParagraph(d.content[3], "atlassian-question_mark", <<WN, COLON>>)

\* C21: every document that updateProgressField sends, and so every document
\* it persists, is in the paragraph encoding with exactly three paragraphs
\* in the order week-of, delivered, what's-next, each an emoji marker and one
\* text run, whatever encoding the value it read had
C21_CanonicalOutput ==
    /\ \A c \in Callers : upc[c] \in {"writing", "done"} => Canonical(sentDoc[c])
    /\ Len(written) > 0 => Canonical(store)

\* a call that read the legacy panel encoding has persisted its document
C21_Witness ==
    \E c \in Callers :
        /\ upc[c] = "done"
        /\ readVal[c].k = "obj" /\ Len(readVal[c].content) > 0
        /\ readVal[c].content[1].type = "panel"
        /\ store = sentDoc[c]

----------------------------------------------------------------------------
(* Apostrophes *)

\* the token with its curly apostrophes written straight
StraightToken(t) == IF t = DLC THEN DL ELSE IF t = WNC THEN WN ELSE t

RECURSIVE Straight(_)
\* the node with every curly apostrophe of its texts written straight
Straight(node) ==
    IF node.k # "obj" THEN node
    ELSE [node EXCEPT
            !.text = [i \in 1..Len(node.text) |-> StraightToken(node.text[i])],
            !.content = [i \in 1..Len(node.content) |-> Straight(node.content[i])]]

\* C22: a document whose headers are written with curly apostrophes parses
\* to what the same document with straight apostrophes parses to, in the
\* panel and in the paragraph encoding
C22_ApostropheTolerance ==
    (pstep = "parsed" /\ pkind \in {"raw", "panel"}) =>
        parsed = parseProgressUpdateADF(Straight(doc))

----------------------------------------------------------------------------
(* Coercion by field type *)

\* the registered identifiers that the input addresses, by identifier or by
\* display name
AddressedIds(f) ==
    {id \in DOMAIN CUSTOM_FIELD_TYPES : f = id \/ id \in NamedBy(f)}

\* v is an object: not a primitive, and not null
IsObjectValue(v) == v.t \in {"object", "array"}

\* the one-paragraph document of the text
OneParagraph(text) ==
    AdfObj(Node("doc", FALSE, <<>>, "array",
                <<Node("paragraph", FALSE, <<>>, "array",
                       <<Node("text", TRUE, text, "none", <<>>, "", FALSE)>>,
                       "", FALSE)>>,
                "", FALSE))

\* what a field of the type is to receive for the value
Coerced(type, v) ==
    CASE type = "richtext" ->
            IF IsObjectValue(v) /\ v.shape = "adf" THEN v ELSE OneParagraph(ToStr(v))
      [] type = "select" ->
            IF IsObjectValue(v) THEN v ELSE Obj("value", ToStr(v))
      [] type = "user" ->
            IF IsObjectValue(v) THEN v ELSE Obj("accountId", ToStr(v))

\* C23: the write request of updateIssueField carries, for a richtext field,
\* an object value with a root type marker unchanged and any other value as
\* the one-paragraph document of its string form; for a select or user
\* field, an object value unchanged and any other value as
\* {value: string form} or {accountId: string form}
C23_TypeCoercion ==
    (fcall.op = "updateIssueField" /\ WriteSent) =>
        \A id \in AddressedIds(fcall.fieldNameOrId) :
            CUSTOM_FIELD_TYPES[id] \in {"richtext", "select", "user"} =>
                /\ id \in DOMAIN SentFields
                /\ SentFields[id] = Coerced(CUSTOM_FIELD_TYPES[id], fcall.value)

----------------------------------------------------------------------------
(* Sprint weeks *)

\* C24: the range that calculateSprintLabel returns begins on a Monday and
\* ends on the Friday four days later; for this_week the Monday is the last
\* Monday on or before today (for a Sunday, six days earlier), for next_week
\* seven days after that; the label is the Monday's month abbreviation, the
\* Monday's day of month, '-', and the Friday's day of month
C24_SprintWeek ==
    sweek # "none" =>
        /\ getDay(sprint.mondayDate) = 1
        /\ getDay(sprint.fridayDate) = 5
        /\ DayNumber(sprint.fridayDate) = DayNumber(sprint.mondayDate) + 4
        /\ sprint.mondayDate.d \in 1..DaysInMonth(sprint.mondayDate.y, sprint.mondayDate.m)
        /\ sprint.fridayDate.d \in 1..DaysInMonth(sprint.fridayDate.y, sprint.fridayDate.m)
        /\ sweek = "this_week" =>
              /\ DayNumber(sprint.mondayDate) <= DayNumber(snow)
              /\ DayNumber(snow) <= DayNumber(sprint.mondayDate) + 6
        /\ sweek = "next_week" =>
              /\ DayNumber(sprint.mondayDate) - 7 <= DayNumber(snow)
              /\ DayNumber(snow) <= DayNumber(sprint.mondayDate) - 1
        /\ sprint.label = <<MONTH_ABBR[sprint.mondayDate.m + 1], sprint.mondayDate.d,
                             "-", sprint.fridayDate.d>>

\* called on a Sunday for this week, with the week's Friday in the month
\* after its Monday's
C24_Witness ==
    /\ sweek = "this_week"
    /\ getDay(snow) = 0
    /\ DayNumber(sprint.mondayDate) = DayNumber(snow) - 6
    /\ sprint.fridayDate.m # sprint.mondayDate.m
    /\ sprint.fridayDate.d < sprint.mondayDate.d

----------------------------------------------------------------------------
(* Headers as prefixes *)

\* b is a paragraph of one text run
PlainParagraph(b) ==
    /\ b.k = "obj" /\ b.type = "paragraph" /\ b.ck = "array"
    /\ Len(b.content) = 1
    /\ b.content[1].k = "obj" /\ b.content[1].type = "text" /\ b.content[1].hasText

\* the text begins with one of the three header phrases, in either spelling
BeginsWithHeader(text) ==
    Len(Trim(text)) > 0 /\ Trim(text)[1] \in {UW, DL, WN, DLC, WNC}

\* C25: in a document of paragraphs none of which begins with a header
\* phrase, no paragraph is taken as a header, whatever phrase it holds later
\* in its text: no section is set and the result is the defaults
C25_HeadersArePrefixes ==
    (/\ pkind = "raw" /\ pstep = "parsed"
     /\ doc.k = "obj" /\ doc.ck = "array"
     /\ \A i \in 1..Len(doc.content) :
           /\ PlainParagraph(doc.content[i])
           /\ ~BeginsWithHeader(doc.content[i].content[1].text))
        => parsed = DefaultResult

----------------------------------------------------------------------------
(* The parser's section state machine *)

\* the parser's state before it looks at block i of the document
StateBefore(i) == ParseBlocks(SubSeq(doc.content, 1, i - 1), ParseDefaults)

\* the parser's state after block i
StateAfter(i) == ParseBlock(StateBefore(i), doc.content[i])

\* block i is a paragraph that the paragraph branch of the loop handles
IsParagraph(i) ==
    /\ doc.content[i].k = "obj" /\ doc.content[i].type = "paragraph"
    /\ doc.content[i].ck = "array"

\* the extracted text of paragraph i
ParagraphText(i) == extractTextFromADFNode(doc.content[i])

\* new is old with a separator and the text appended
Appended(old, new, text) ==
    \E sep \in {SepDash, SepDot, <<>>} : new = old \o sep \o text

\* block i, not a header, leaves the active section as it was; with no
\* section active it leaves the result as it was; with a section active
\* its text, when not empty, is appended to that section and to no other
ContinuationStep(i) ==
    /\ StateAfter(i).currentSection = StateBefore(i).currentSection
    /\ StateBefore(i).currentSection = "null" => StateAfter(i) = StateBefore(i)
    /\ StateBefore(i).currentSection = "weekly" =>
          /\ StateAfter(i).delivered = StateBefore(i).delivered
          /\ StateAfter(i).whatsNext = StateBefore(i).whatsNext
          /\ Len(ParagraphText(i)) > 0 =>
                Appended(StateBefore(i).weeklyUpdate, StateAfter(i).weeklyUpdate,
                         ParagraphText(i))
    /\ StateBefore(i).currentSection = "delivered" =>
          /\ StateAfter(i).weeklyUpdate = StateBefore(i).weeklyUpdate
          /\ StateAfter(i).whatsNext = StateBefore(i).whatsNext
          /\ Len(ParagraphText(i)) > 0 =>
                Appended(StateBefore(i).delivered, StateAfter(i).delivered,
                         ParagraphText(i))
    /\ StateBefore(i).currentSection = "whatsNext" =>
          /\ StateAfter(i).weeklyUpdate = StateBefore(i).weeklyUpdate
          /\ StateAfter(i).delivered = StateBefore(i).delivered
          /\ Len(ParagraphText(i)) > 0 =>
                Appended(StateBefore(i).whatsNext, StateAfter(i).whatsNext,
                         ParagraphText(i))

\* one of the parser's three header patterns finds a match in the text
MatchesHeader(text) ==
    \/ WeeklyMatch(text).matched
    \/ DeliveredMatch(text).matched
    \/ WhatsNextMatch(text).matched

----------------------------------------------------------------------------
(* Continuation separators *)

\* block i is a paragraph with text that matches no header pattern
IsContinuation(i) ==
    IsParagraph(i) /\ ~MatchesHeader(ParagraphText(i)) /\ Len(ParagraphText(i)) > 0

\* a continuation stands between block i and the header that opened the
\* section active at block i
EarlierContinuation(i) ==
    \E k \in 1..(i - 1) :
        /\ IsContinuation(k)
        /\ \A j \in (k + 1)..(i - 1) :
              ~(IsParagraph(j) /\ MatchesHeader(ParagraphText(j)))

\* C27: a continuation paragraph is appended to the week-of section with
\* " - " when it is the first one after the week-of header and with ". "
\* when it is a later one; to delivered and to whatsNext it is joined with
\* ". "
C27_ContinuationSeparators ==
    (pkind = "raw" /\ pstep = "parsed" /\ doc.k = "obj" /\ doc.ck = "array") =>
        \A i \in 1..Len(doc.content) :
            (~StateBefore(i).threw /\ IsContinuation(i)) =>
                /\ StateBefore(i).currentSection = "weekly" =>
                      StateAfter(i).weeklyUpdate =
                          StateBefore(i).weeklyUpdate
                              \o (IF EarlierContinuation(i) THEN SepDot ELSE SepDash)
                              \o ParagraphText(i)
                /\ StateBefore(i).currentSection = "delivered" =>
                      StateAfter(i).delivered =
                          IF StateBefore(i).delivered = <<>> THEN ParagraphText(i)
                          ELSE StateBefore(i).delivered \o SepDot \o ParagraphText(i)
                /\ StateBefore(i).currentSection = "whatsNext" =>
                      StateAfter(i).whatsNext =
                          IF StateBefore(i).whatsNext = <<>> THEN ParagraphText(i)
                          ELSE StateBefore(i).whatsNext \o SepDot \o ParagraphText(i)

----------------------------------------------------------------------------
(* Repeated merges *)

\* the call of c supplies delivered and/or whatsNext and nothing else
SuppliesOnlyLaterSections(c) ==
    /\ ~opts[c].refreshDate /\ ~opts[c].weeklyUpdate.set
    /\ opts[c].delivered.set \/ opts[c].whatsNext.set

\* C28: after any sequence of successful calls that supply only delivered
\* and/or whatsNext, the weekOf parsed from the stored document is the
\* weekOf parsed from the document stored before the first call, and a
\* section that none of the calls supplied parses to what it parsed to then
C28_NoDrift ==
    (/\ Len(written) > 0
     /\ \A i \in 1..Len(written) : SuppliesOnlyLaterSections(written[i])
     /\ \A c \in Callers : upc[c] \in {"idle", "done"})
        => /\ parseProgressUpdateADF(store).weeklyUpdate
                 = parseProgressUpdateADF(initial).weeklyUpdate
           /\ (\A i \in 1..Len(written) : ~opts[written[i]].delivered.set)
                 => parseProgressUpdateADF(store).delivered
                        = parseProgressUpdateADF(initial).delivered
           /\ (\A i \in 1..Len(written) : ~opts[written[i]].whatsNext.set)
                 => parseProgressUpdateADF(store).whatsNext
                        = parseProgressUpdateADF(initial).whatsNext

----------------------------------------------------------------------------
(* Registered fields *)

\* C29: every write request of updateIssueField targets one identifier of
\* the custom-field registry and carries the value coerced by that field's
\* registered type; a call whose input addresses no registered identifier
\* ends in an error with no request sent
C29_OnlyRegisteredWritten ==
    fcall.op = "updateIssueField" =>
        /\ WriteSent =>
              \E id \in DOMAIN CUSTOM_FIELD_TYPES :
                  /\ DOMAIN SentFields = {id}
                  /\ IF CUSTOM_FIELD_TYPES[id] = "number"
                     THEN SentFields[id].t = "number"
                     ELSE SentFields[id] = Coerced(CUSTOM_FIELD_TYPES[id], fcall.value)
        /\ AddressedIds(fcall.fieldNameOrId) = {}
              => fstep = "failed" /\ requests = <<>>

----------------------------------------------------------------------------
(* The requests of createIssue *)

\* the assignee of the call is 'currentuser()': given in any letter case, or
\* not given for project TSSE
CurrentUserAssignee(o) ==
    \/ o.assignee.t = "string" /\ toLowerCase(o.assignee.s) = CurrentUser
    \/ o.assignee.t \in {"undefined", "null"} /\ IsTSSE(o)

\* the positions of the call's requests for the current actor, and of its
\* create requests
MyselfRequests == {i \in 1..Len(requests) : requests[i].endpoint = "/myself"}
CreateRequests == {i \in 1..Len(requests) : requests[i].method = "POST"}

\* C30: createIssue asks for the current actor only when the effective
\* assignee is 'currentuser()', and before the create request, which then
\* carries the actor's account id; when that request fails no create request
\* is sent and the cache stays empty; with any other assignee, or none for
\* another project, the create request is the only request
C30_CreateIssueOrdering ==
    fcall.op = "createIssue" =>
        /\ MyselfRequests # {} => CurrentUserAssignee(fcall.options)
        /\ \A i \in MyselfRequests, j \in CreateRequests : i < j
        /\ CurrentUserAssignee(fcall.options) =>
              \A j \in CreateRequests :
                  /\ currentUserAccountId = Me
                  /\ <<"assignee">> \in DOMAIN requests[j].fields
                  /\ requests[j].fields[<<"assignee">>] = Obj("accountId", Me)
        /\ (fstep = "failed" /\ ferr = "GET failed")
              => CreateRequests = {} /\ currentUserAccountId = <<>>
        /\ ~CurrentUserAssignee(fcall.options)
              => MyselfRequests = {} /\ Len(requests) <= 1

\* a call for project TSSE without an assignee has asked for the current
\* actor and then sent its create request
C30_Witness ==
    /\ fcall.op = "createIssue" /\ fstep \in {"post", "done"}
    /\ fcall.options.assignee = Undefined /\ IsTSSE(fcall.options)
    /\ Len(requests) = 2
    /\ requests[1].endpoint = "/myself" /\ requests[2].method = "POST"

====
